---- MODULE Spec2Model ----
(***************************************************************************)
(* State-machine model of the transfer engine of scptui:                   *)
(*   src/scpi/ssh_client.py  SCPClient (session, listing, leaf and         *)
(*                           directory transfers, post-cancel recovery,    *)
(*                           byte-progress callback, remote probes)        *)
(*   src/scpi/main.py        perform_copy (the copy callback's body),      *)
(*                           parse_remote_path, parse_arguments, main      *)
(*   src/scptui/ui.py        FileBrowser / ProgressModal (copy workers,    *)
(*                           Cancel button, foreground listing)            *)
(*                                                                         *)
(* paramiko facts the model relies on (the library is not part of the      *)
(* repository): SFTPClient.close() closes the channel held in .sock and    *)
(* leaves .sock set (sock.closed becomes True, sock never becomes None);   *)
(* SSHClient.close() drops the transport (get_transport() is None          *)
(* afterwards); when a transport dies all of its channels are closed; a    *)
(* request on a closed channel raises an error that is not                 *)
(* FileNotFoundError; put/get invoke the callback after every chunk;       *)
(* close() on a closed SFTPClient or SSHClient does nothing and does not   *)
(* raise.  An sftp server answers a stat below a missing or non-directory  *)
(* component with "no such file" (FileNotFoundError) and a stat it refuses *)
(* with "permission denied" (PermissionError).  put/get write chunks of    *)
(* 32768 bytes and call the callback after each with the bytes moved so    *)
(* far, so the counts of one transfer increase strictly and end at the     *)
(* file size.  App.call_from_thread returns once the UI thread has run the *)
(* call.                                                                   *)
(***************************************************************************)
EXTENDS Integers, Sequences, FiniteSets, TLC

\* ------------------------------------------------------------------ bounds
\* Every file is moved in Chunks chunks (one byte-progress callback each).
Chunks == 2
\* Number of engine calls / copy invocations one behaviour may start.
MaxCalls == 2
\* Number of times the network may drop the SSH transport.
MaxFaults == 1

\* ------------------------------------------------------- the source tree
\* The tree of spec section 8 (a.txt, dir1/{x.txt, sub/y.txt}) with one more
\* file after the sub-directory, so that a directory has a child on both
\* sides of a nested directory.
Files == {"a.txt", "x.txt", "y.txt", "z.txt"}
Dirs == {"dir1", "sub"}
Nodes == Files \cup Dirs
\* The pseudo-directory standing for perform_copy's own selected_items list.
Top == "selected_items"

\* Path.iterdir() / sftp.listdir_attr(): the children in enumeration order.
Children(d) ==
  CASE d = "dir1" -> <<"x.txt", "sub", "z.txt">>
    [] d = "sub" -> <<"y.txt">>
    [] OTHER -> << >>

\* The item lists a caller may hand to perform_copy.
ItemChoices == {<<"a.txt", "dir1">>, <<"dir1", "a.txt">>}
\* The item lists the browser hands to its copy callback.
BrowserChoices == {<<"a.txt">>}

Workers == {"w1", "w2"}

Range(s) == {s[i] : i \in 1..Len(s)}

VARIABLES
  wk,        \* per copy worker: the position inside perform_copy and its callees
  fg,        \* the thread calling list_remote_files (foreground / caller)
  client,    \* SCPClient.client and its transport
  sftp,      \* SCPClient.sftp and its channel
  dst,       \* destination side: state of each file at its destination path
  isUpload,  \* TransferConfig.is_upload
  modal,     \* per worker: its ProgressModal on the screen stack
  faults,    \* transport drops so far
  calls,     \* calls started so far
  forced,    \* history: the last session operation was a forced-cancelled leaf
  rec,       \* history: the session recovery the last step ran, if any
  entries,   \* the directory a listing call is made on: its raw entries
  listing,   \* what the listing call returned
  remote,    \* the remote tree _create_remote_directory works on
  mk,        \* the _create_remote_directory call: path, requests issued, outcome
  cli,       \* one run of main(): its command line and how far it got
  parsed,    \* the parse_remote_path call: its argument and what it returned
  prog,      \* one leaf transfer's byte-progress callbacks and the events it emitted
  probe,     \* the remote_exists / is_remote_dir / expand_remote_path call
  up,        \* one upload of a selection: the remote tree it builds, path by path
  app,       \* the browser application: running, exited, and main() after it
  walk,      \* one upload_directory / count_files_recursive walk of a local tree
  srch       \* the browser's item list and its search state

\* The state of the upload tree, the application, the tree walk and the search.
others == <<up, app, walk, srch>>

vars == <<wk, fg, client, sftp, dst, isUpload, modal, faults, calls, forced, rec,
          entries, listing, remote, mk, cli, parsed, prog, probe, others>>

\* The state of the single-call operations, which no step of a copy worker,
\* of a listing session or of the browser touches.
aside == <<entries, listing, remote, mk, cli, parsed, prog, probe, others>>

\* The state of the engine, which the single-call operations leave alone.
engine == <<wk, fg, client, sftp, dst, isUpload, modal, faults, calls, forced, rec>>

\* ---------------------------------------------------------------- session
\* client: "none"        self.client is None
\*         "unconnected" an SSHClient without transport (connect failed / closed)
\*         "active"      transport up
\*         "inactive"    transport died
\* sftp:   "none"   self.sftp is None
\*         "open"   SFTPClient whose channel is open
\*         "closed" SFTPClient whose channel is closed (sock.closed)
ClientStates == {"none", "unconnected", "active", "inactive"}
SftpStates == {"none", "open", "closed"}

\* self.client and get_transport() and get_transport().is_active()
transport_active(c) == c = "active"

\* ensure_connection's test of the sub-session:
\* not self.sftp or self.sftp.sock is None or self.sftp.sock.closed
sftp_dead_ensure(s) == s = "none" \/ s = "closed"

\* The post-cancel branch's test: not self.sftp or self.sftp.sock is None
sftp_dead_post_cancel(s) == s = "none"

\* A request through self.sftp succeeds only on an open channel.
usable(s) == s = "open"

\* SCPClient.connect(): the states it can leave and the value it returns.
connect_results(s) ==
  { [client |-> "unconnected", sftp |-> s, ok |-> FALSE],    \* client.connect raised
    [client |-> "active", sftp |-> s, ok |-> FALSE],         \* open_sftp raised
    [client |-> "active", sftp |-> "open", ok |-> TRUE] }

\* self.client.open_sftp() on a live transport: the new value of self.sftp.
open_sftp_results(s) == {"open", s}

NoRec == [place |-> "none", client |-> "none", sftp |-> "none", did |-> "none"]


\* ----------------------------------------------------------- copy workers
\* A worker is one thread executing the copy callback (perform_copy).  Its
\* stack holds one frame per active loop: perform_copy's loop over
\* selected_items at the bottom, one upload_directory / download_directory
\* loop per nested directory above it.
IdleWorker ==
  [ pc |-> "idle",          \* position in the code
    stack |-> << >>,        \* frames [node, kids, i, ok]; ok is all_success
    cur |-> "none",         \* the item being transferred / that just returned
    sent |-> 0,             \* chunks moved by the running put/get
    last_reported |-> 0,    \* last_reported[0]
    exc |-> "none",         \* the exception caught around put/get
    ret |-> "none",         \* value of the call that just returned
    how |-> "none",         \* the path it returned through
    cancelled |-> FALSE,    \* ProgressModal.cancelled, read by cancel_check
    result |-> "none",      \* what perform_copy returned
    kind |-> "none",        \* which browser handler started the worker
    items |-> << >>,        \* selected_items of the invocation
    events |-> << >>,       \* progress events of the current file
    started |-> << >>,      \* history: items whose transfer was invoked
    out |-> [n \in Nodes |-> "none"],  \* history: value each call returned
    observed |-> FALSE,     \* history: an orchestrator check saw the predicate true
    obs |-> {},             \* history: <<directory, k>> of each loop check that saw it
    dirFail |-> {},         \* history: directories whose set-up failed
    entered |-> {},         \* history: directories whose loop was entered
    inflight |-> "none",    \* history: the item in flight when cancel was signalled
    polled |-> FALSE ]      \* history: a poll point has seen the predicate true

Frame(node, kids) == [node |-> node, kids |-> kids, i |-> 1, ok |-> TRUE]
TopFrame(r) == r.stack[Len(r.stack)]
Pop(r) == SubSeq(r.stack, 1, Len(r.stack) - 1)
Running(r) == r.pc \notin {"idle", "done", "finished"}
LeafPcs == {"file_begin", "file_open", "xfer", "finish", "except"}

\* Faulty variant of cancel_check: the flag is never seen (C2 fails under it).
cancel_check_never(r) == FALSE

\* cancel_check(): the lambda reading progress_modal.cancelled.
cancel_check(r) == r.cancelled

\* A callee returns val for item node to the loop that invoked it.
Returned(r, node, val, how) ==
  [r EXCEPT !.pc = "ret", !.cur = node, !.ret = val, !.how = how,
            !.out = [@ EXCEPT ![node] = val]]

\* The loop of the top frame returns val: perform_copy ends the invocation,
\* a directory transfer returns to the loop below it.
FrameReturn(r, val) ==
  LET f == TopFrame(r) IN
  IF f.node = Top
    THEN [r EXCEPT !.pc = "done", !.stack = << >>, !.result = val, !.cur = "none"]
    ELSE Returned([r EXCEPT !.stack = Pop(r)], f.node, val, "loop")

\* Faulty variant of Forget: the flag is cleared with the callee's locals
\* (C27 fails under it).
ForgetFlag(r) ==
  [r EXCEPT !.sent = 0, !.last_reported = 0, !.exc = "none", !.ret = "none",
            !.how = "none", !.events = << >>, !.cancelled = FALSE]

\* The locals of a callee are gone once its caller has taken its result.
Forget(r) ==
  [r EXCEPT !.sent = 0, !.last_reported = 0, !.exc = "none", !.ret = "none",
            !.how = "none", !.events = << >>]

\* Faulty variant of Aggregate: the last result wins (C10 fails under it).
AggregateLast(ok, ret) == ret = "true"

\* if not result: all_success = False
Aggregate(ok, ret) == ok /\ (ret = "true")

\* Faulty variant of NextIndex: a failed child ends the loop (C9 fails under it).
NextIndexBreak(f, ret) == IF ret = "true" THEN f.i + 1 ELSE Len(f.kids) + 1

\* The for statement moves to the next item whatever the child returned.
NextIndex(f, ret) == f.i + 1

\* perform_copy(selected_items, ..., cancel_check): entry, up to the loop.
perform_copy(w, its, kind) ==
  /\ wk' = [wk EXCEPT ![w] =
       [IdleWorker EXCEPT !.pc = "loop", !.stack = <<Frame(Top, its)>>, !.kind = kind,
                         !.items = its]]
  /\ calls' = calls + 1

\* Faulty variant of loop_cancelled: the check is recorded but the item is
\* dispatched all the same (C3 fails under it).
loop_cancelled_no_return(r) ==
  LET f == TopFrame(r) IN
  [r EXCEPT !.observed = TRUE, !.polled = TRUE, !.obs = @ \cup {<<f.node, f.i>>},
            !.cur = f.kids[f.i],
            !.started = Append(@, f.kids[f.i]),
            !.pc = IF f.kids[f.i] \in Dirs THEN "dir_begin" ELSE "file_begin"]

\* The per-item check found the predicate true: return False.
loop_cancelled(r) ==
  LET f == TopFrame(r) IN
  FrameReturn([r EXCEPT !.observed = TRUE, !.polled = TRUE,
                        !.obs = @ \cup {<<f.node, f.i>>}], "false")

\* The item is handed to upload_directory / download_directory or to
\* upload_file / download_file.
loop_dispatch(r) ==
  LET f == TopFrame(r) IN
  [r EXCEPT !.cur = f.kids[f.i],
            !.started = Append(@, f.kids[f.i]),
            !.pc = IF f.kids[f.i] \in Dirs THEN "dir_begin" ELSE "file_begin"]

\* The head of the loop in perform_copy, upload_directory and
\* download_directory: the per-item cancellation check and the dispatch of
\* the item, or the return of all_success when the items are exhausted.
loop_item(w) ==
  LET r == wk[w]
      f == TopFrame(r) IN
  /\ r.pc = "loop"
  /\ wk' = [wk EXCEPT ![w] =
       IF f.i > Len(f.kids) THEN FrameReturn(r, IF f.ok THEN "true" ELSE "false")
       ELSE IF cancel_check(r) THEN loop_cancelled(r)
       ELSE loop_dispatch(r)]
  /\ UNCHANGED <<fg, client, sftp, dst, isUpload, aside, modal, faults, calls, forced>>
  /\ rec' = NoRec

\* upload_directory / download_directory from entry to the loop: the entry
\* cancellation check, the sub-session check, then _create_remote_directory
\* (upload) or mkdir + sftp.listdir_attr (download), which need the
\* sub-session and may be refused (setup_ok); their exception makes the
\* directory return False.
directory_begin(w) ==
  LET r == wk[w] IN
  /\ r.pc = "dir_begin"
  /\ \E setup_ok \in BOOLEAN :
       wk' = [wk EXCEPT ![w] =
         IF cancel_check(r)
           THEN Returned([r EXCEPT !.observed = TRUE, !.polled = TRUE], r.cur, "false",
                         "cancel_before_start")
         ELSE IF sftp = "none" \/ ~usable(sftp) \/ ~setup_ok
           THEN Returned([r EXCEPT !.dirFail = @ \cup {r.cur}], r.cur, "false", "failed")
         ELSE [r EXCEPT !.pc = "loop",
                        !.entered = @ \cup {r.cur},
                        !.stack = Append(@, Frame(r.cur, Children(r.cur)))]]
  /\ forced' = (forced /\ cancel_check(r))
  /\ UNCHANGED <<fg, client, sftp, dst, isUpload, aside, modal, faults, calls>>
  /\ rec' = NoRec

\* upload_file / download_file entry: the cancellation check before
\* starting and the check that a sub-session object exists.
file_begin(w) ==
  LET r == wk[w] IN
  /\ r.pc = "file_begin"
  /\ wk' = [wk EXCEPT ![w] =
       IF cancel_check(r)
         THEN Returned([r EXCEPT !.polled = TRUE], r.cur, "false", "cancel_before_start")
       ELSE IF sftp = "none" THEN Returned(r, r.cur, "false", "no_sftp")
       ELSE [r EXCEPT !.pc = "file_open"]]
  /\ UNCHANGED <<fg, client, sftp, dst, isUpload, aside, modal, faults, calls, forced>>
  /\ rec' = NoRec

\* upload_file: os.path.exists(local_path), sftp.stat(remote_dir), then put
\* opens the remote file.  download_file: sftp.stat(remote_path), makedirs,
\* then get opens the local file.  A missing source or a request on an
\* unusable sub-session raises into the outer except: return False.
file_open(w) ==
  LET r == wk[w] IN
  /\ r.pc = "file_open"
  /\ \E source_exists \in BOOLEAN :
       IF source_exists /\ usable(sftp)
         THEN /\ wk' = [wk EXCEPT ![w] =
                   [r EXCEPT !.pc = "xfer", !.sent = 0, !.last_reported = 0,
                             !.events = << >>, !.exc = "none"]]
              /\ dst' = [dst EXCEPT ![r.cur] = "partial"]
         ELSE /\ wk' = [wk EXCEPT ![w] = Returned(r, r.cur, "false", "failed")]
              /\ dst' = dst
  /\ forced' = FALSE
  /\ UNCHANGED <<fg, client, sftp, isUpload, aside, modal, faults, calls>>
  /\ rec' = NoRec

\* transferred == total or progress_percent - last_percent >= 1
should_report(transferred, total, last) ==
  transferred = total \/ (transferred - last) * 100 >= total

\* Faulty variant of progress_event: the count left to move is reported
\* (C26 fails under it).
progress_event_remaining(r, n) == <<r.cur, Chunks - n>>

\* progress_callback(progress_msg): the event names the file and the bytes
\* moved so far.
progress_event(r, n) == <<r.cur, n>>

\* Faulty variant of force_close: the sub-session is left open (C6 fails
\* under it).
force_close_skipped(s) == s

\* What the callback does to the sub-session when the predicate is true:
\* self.sftp.close()
force_close(s) == IF s = "none" THEN s ELSE "closed"

\* Faulty variant of raise_cancelled: the callback returns instead of
\* raising and the transfer goes on (C11 fails under it).
raise_swallowed(r, n) ==
  [r EXCEPT !.sent = n, !.polled = TRUE, !.pc = IF n = Chunks THEN "finish" ELSE "xfer"]

\* raise Exception("Transfer cancelled by user") out of the callback: put/get
\* is abandoned after chunk n and control reaches the except clause.
raise_cancelled(r, n) ==
  [r EXCEPT !.pc = "except", !.exc = "cancel", !.sent = n, !.polled = TRUE]

\* What str(e) of an exception raised by put/get on a failing session can
\* be, as far as the except clause tells texts apart: "session_closed" is a
\* text that contains "Session is closed", "fault" any other text.  The text
\* of an SFTP error is chosen by the server or the library.
FaultTexts == {"fault", "session_closed"}

\* One chunk moved by put/get followed by check_cancel_and_report(transferred,
\* total).  On an unusable sub-session the chunk itself raises.
check_cancel_and_report(w) ==
  LET r == wk[w]
      n == r.sent + 1 IN
  /\ r.pc = "xfer"
  /\ IF ~usable(sftp)
       THEN /\ \E text \in FaultTexts :
                 wk' = [wk EXCEPT ![w] = [r EXCEPT !.pc = "except", !.exc = text]]
            /\ sftp' = sftp
     ELSE IF cancel_check(r)
       THEN /\ wk' = [wk EXCEPT ![w] = raise_cancelled(r, n)]
            /\ sftp' = force_close(sftp)
     ELSE /\ wk' = [wk EXCEPT ![w] =
               [r EXCEPT !.sent = n,
                         !.pc = IF n = Chunks THEN "finish" ELSE "xfer",
                         !.events = IF should_report(n, Chunks, r.last_reported)
                                      THEN Append(@, progress_event(r, n)) ELSE @,
                         !.last_reported = IF should_report(n, Chunks, r.last_reported)
                                             THEN n ELSE @]]
          /\ sftp' = sftp
  /\ UNCHANGED <<fg, client, dst, isUpload, aside, modal, faults, calls, forced>>
  /\ rec' = NoRec

\* put/get return after the last chunk (put confirms the size with a stat on
\* the sub-session); the verification that follows cannot fail the upload; a
\* download then finds the local file: return True.
file_finish(w) ==
  LET r == wk[w] IN
  /\ r.pc = "finish"
  /\ IF isUpload /\ ~usable(sftp)
       THEN /\ \E text \in FaultTexts :
                 wk' = [wk EXCEPT ![w] = [r EXCEPT !.pc = "except", !.exc = text]]
            /\ dst' = dst
       ELSE /\ wk' = [wk EXCEPT ![w] = Returned(r, r.cur, "true", "completed")]
            /\ dst' = [dst EXCEPT ![r.cur] = "complete"]
  /\ UNCHANGED <<fg, client, sftp, isUpload, aside, modal, faults, calls, forced>>
  /\ rec' = NoRec

\* is_cancelled = (cancel_check and cancel_check())
\*   or "Transfer cancelled by user" in str(e) or "Session is closed" in str(e)
is_cancelled(r) == cancel_check(r) \/ r.exc = "cancel" \/ r.exc = "session_closed"

\* Faulty variant of cleanup_partial: nothing is removed (C8 fails under it).
cleanup_none(upload, d, f) == d

\* The cancel branch's clean-up: download_file removes the local file
\* (os.remove, whose own failure is only logged and is not modelled);
\* upload_file leaves the remote file alone.
cleanup_partial(upload, d, f) == IF upload THEN d ELSE [d EXCEPT ![f] = "absent"]

\* Faulty variant of outer_except: the exception leaves the transfer call
\* (C28 fails under it).
outer_except_missing(r) == Returned(r, r.cur, "raise", "failed")

\* except Exception as e: ... return False, the outer handler of upload_file
\* and download_file.
outer_except(r) == Returned(r, r.cur, "false", "failed")

\* The except clause around put/get.  Cancelled: clean up (download), try
\* to restore the session, return False.  Otherwise raise e, which the outer
\* except turns into return False.
file_except(w) ==
  LET r == wk[w] IN
  /\ r.pc = "except"
  /\ IF is_cancelled(r)
       THEN /\ dst' = cleanup_partial(isUpload, dst, r.cur)
            /\ wk' = [wk EXCEPT ![w] = Returned(r, r.cur, "false", "cancelled")]
            /\ IF ~transport_active(client)
                 THEN \E c \in connect_results(sftp) :
                        /\ client' = c.client
                        /\ sftp' = c.sftp
                        /\ rec' = [place |-> "post_cancel", client |-> client,
                                   sftp |-> sftp, did |-> "reconnect"]
               ELSE IF sftp_dead_post_cancel(sftp)
                 THEN /\ sftp' \in open_sftp_results(sftp)
                      /\ client' = client
                      /\ rec' = [place |-> "post_cancel", client |-> client,
                                 sftp |-> sftp, did |-> "reopen"]
               ELSE /\ UNCHANGED <<client, sftp>>
                    /\ rec' = [place |-> "post_cancel", client |-> client,
                               sftp |-> sftp, did |-> "nothing"]
            /\ forced' = (r.exc = "cancel" /\ transport_active(client))
       ELSE /\ wk' = [wk EXCEPT ![w] = outer_except(r)]
            /\ UNCHANGED <<client, sftp, dst, forced>>
            /\ rec' = NoRec
  /\ UNCHANGED <<fg, isUpload, aside, modal, faults, calls>>

\* The loop that invoked the item takes its result: all_success is updated
\* and the loop goes on.  An exception out of a callee is caught by a
\* directory transfer (return False) and leaves perform_copy.
call_return(w) ==
  LET r == wk[w]
      f == TopFrame(r) IN
  /\ r.pc = "ret"
  /\ wk' = [wk EXCEPT ![w] =
       IF r.ret = "raise"
         THEN IF f.node = Top
                THEN [Forget(r) EXCEPT !.pc = "done", !.stack = << >>, !.result = "raise"]
                ELSE Returned([Forget(r) EXCEPT !.stack = Pop(r)], f.node, "false", "failed")
         ELSE [Forget(r) EXCEPT !.pc = "loop",
                                !.stack = [@ EXCEPT ![Len(r.stack)] =
                                             [f EXCEPT !.ok = Aggregate(f.ok, r.ret),
                                                       !.i = NextIndex(f, r.ret)]]]]
  /\ UNCHANGED <<fg, client, sftp, dst, isUpload, aside, modal, faults, calls, forced>>
  /\ rec' = NoRec


\* ------------------------------------------------------ list_remote_files
\* attempts is history: the listing attempts made by the running call.
IdleFg == [pc |-> "idle", result |-> "none", attempts |-> 0]

\* list_remote_files returns val ("items": the sorted listing, "empty": []).
ListReturn(val) == [fg EXCEPT !.pc = "returned", !.result = val]

\* list_remote_files is entered.
list_remote_files == fg' = [pc |-> "ensure", result |-> "none", attempts |-> 0]

\* The caller takes the returned list (refresh_file_list fills its view).
list_files_returned ==
  /\ fg.pc = "returned"
  /\ fg' = IdleFg
  /\ UNCHANGED <<wk, client, sftp, dst, isUpload, aside, modal, faults, calls, forced>>
  /\ rec' = NoRec

\* ensure_connection() and the test of its result: reconnect when the
\* transport is dead, else reopen the sub-session when only it is dead.
ensure_connection ==
  /\ fg.pc = "ensure"
  /\ IF ~transport_active(client)
       THEN \E c \in connect_results(sftp) :
              /\ client' = c.client
              /\ sftp' = c.sftp
              /\ rec' = [place |-> "precheck", client |-> client, sftp |-> sftp,
                         did |-> "reconnect"]
              /\ fg' = IF c.ok THEN [fg EXCEPT !.pc = "attempt1"] ELSE ListReturn("empty")
     ELSE IF sftp_dead_ensure(sftp)
       THEN \E s \in open_sftp_results(sftp) :
              /\ sftp' = s
              /\ client' = client
              /\ rec' = [place |-> "precheck", client |-> client, sftp |-> sftp,
                         did |-> "reopen"]
              /\ fg' = IF s = "open" THEN [fg EXCEPT !.pc = "attempt1"]
                                     ELSE ListReturn("empty")
     ELSE /\ UNCHANGED <<client, sftp>>
          /\ rec' = [place |-> "precheck", client |-> client, sftp |-> sftp,
                     did |-> "nothing"]
          /\ fg' = [fg EXCEPT !.pc = "attempt1"]
  /\ UNCHANGED <<wk, dst, isUpload, aside, modal, faults, calls, forced>>

\* Faulty variant of attempt_failed: the error of the second attempt leaves
\* list_remote_files (C12 fails under it).
attempt_failed_raise(g) ==
  IF g.pc = "attempt1" THEN [g EXCEPT !.pc = "retry"]
  ELSE [g EXCEPT !.pc = "returned", !.result = "raise"]

\* except (OSError, EOFError, paramiko.SSHException, socket.error): the
\* first attempt goes to the reconnect-and-retry branch, the second
\* returns [].
attempt_failed(g) ==
  IF g.pc = "attempt1" THEN [g EXCEPT !.pc = "retry"]
  ELSE [g EXCEPT !.pc = "returned", !.result = "empty"]

\* One pass of the for attempt in range(2) loop up to its return or its
\* except clause: sftp.listdir_attr and the per-entry work.  A missing path
\* and a request on an unusable sub-session both raise an OSError.
listdir_attempt ==
  LET g == [fg EXCEPT !.attempts = @ + 1] IN
  /\ fg.pc \in {"attempt1", "attempt2"}
  /\ \E path_exists \in BOOLEAN :
       fg' = IF sftp = "none" THEN [g EXCEPT !.pc = "returned", !.result = "empty"]
             ELSE IF usable(sftp) /\ path_exists
               THEN [g EXCEPT !.pc = "returned", !.result = "items"]
             ELSE attempt_failed(g)
  /\ forced' = FALSE
  /\ UNCHANGED <<wk, client, sftp, dst, isUpload, aside, modal, faults, calls>>
  /\ rec' = NoRec

\* The except clause of the first attempt: close the sub-session and the
\* client, then self.connect().
retry_reconnect ==
  /\ fg.pc = "retry"
  /\ \E c \in connect_results(force_close(sftp)) :
       /\ client' = c.client
       /\ sftp' = c.sftp
       /\ fg' = IF c.ok THEN [fg EXCEPT !.pc = "attempt2"] ELSE ListReturn("empty")
  /\ rec' = [place |-> "retry", client |-> client, sftp |-> sftp, did |-> "reconnect"]
  /\ UNCHANGED <<wk, dst, isUpload, aside, modal, faults, calls, forced>>

\* ------------------------------------------------------------ environment
\* The network drops the SSH transport; its channels are closed with it.
transport_drop ==
  /\ client = "active"
  /\ faults < MaxFaults
  /\ client' = "inactive"
  /\ sftp' = force_close(sftp)
  /\ faults' = faults + 1
  /\ forced' = FALSE
  /\ UNCHANGED <<wk, fg, dst, isUpload, aside, modal, calls>>
  /\ rec' = NoRec

\* The item (if any) a worker has in flight.
InFlight(r) == IF r.pc \in LeafPcs \cup {"dir_begin"} THEN r.cur ELSE "none"

\* ----------------------------------------- a sequential caller of the engine
\* The copy callback is called with a fresh predicate.
call_perform_copy(its) ==
  /\ wk["w1"].pc \in {"idle", "done"}
  /\ fg.pc = "idle"
  /\ calls < MaxCalls
  /\ perform_copy("w1", its, "call")
  /\ UNCHANGED <<fg, client, sftp, dst, isUpload, aside, modal, faults, forced>>
  /\ rec' = NoRec

call_list_remote_files ==
  /\ wk["w1"].pc \in {"idle", "done"}
  /\ fg.pc = "idle"
  /\ list_remote_files
  /\ UNCHANGED <<wk, client, sftp, dst, isUpload, aside, modal, faults, calls, forced>>
  /\ rec' = NoRec

\* The cancellation predicate of the running invocation becomes true.
cancel_signal ==
  /\ Running(wk["w1"])
  /\ ~wk["w1"].cancelled
  /\ wk' = [wk EXCEPT !["w1"].cancelled = TRUE, !["w1"].inflight = InFlight(wk["w1"])]
  /\ UNCHANGED <<fg, client, sftp, dst, isUpload, aside, modal, faults, calls, forced>>
  /\ rec' = NoRec

\* ------------------------------------------------------------ the browser
\* modal[w]: "none" no modal yet, "shown" on top of the screen stack,
\* "dismissed" closed by its Cancel button, "popped" closed by the worker.
NoModalShown == \A w \in Workers : modal[w] # "shown"

\* The new thread takes the first worker slot that holds no live thread.
Free(w) == wk[w].pc \in {"idle", "finished"}
FirstFree(w) == Free(w) /\ (w = "w2" => ~Free("w1"))

\* FileBrowser.confirm_selection / action_direct_copy / action_navigate's
\* handle_confirm: push a ProgressModal and run do_copy in a new thread.
\* The browser's bindings and buttons are live only while no modal is up.
start_copy(w, its, kind) ==
  /\ NoModalShown
  /\ fg.pc = "idle"
  /\ FirstFree(w)
  /\ calls < MaxCalls
  /\ perform_copy(w, its, kind)
  /\ modal' = [modal EXCEPT ![w] = "shown"]
  /\ UNCHANGED <<fg, client, sftp, dst, isUpload, aside, faults, forced>>
  /\ rec' = NoRec

\* ProgressModal.on_button_pressed("cancel-copy"): set the flag, call
\* cancel_copy (worker.cancel() does not stop a thread), dismiss the modal.
on_button_pressed(w) ==
  /\ modal[w] = "shown"
  /\ fg.pc = "idle"
  /\ wk' = [wk EXCEPT ![w].cancelled = TRUE,
                      ![w].inflight = IF wk[w].cancelled THEN @ ELSE InFlight(wk[w])]
  /\ modal' = [modal EXCEPT ![w] = "dismissed"]
  /\ UNCHANGED <<fg, client, sftp, dst, isUpload, aside, faults, calls, forced>>
  /\ rec' = NoRec

\* FileBrowser.refresh_file_list from a navigation: list_files_func is
\* scp_client.list_remote_files and runs in the foreground thread.
refresh_file_list ==
  /\ NoModalShown
  /\ fg.pc = "idle"
  /\ list_remote_files
  /\ UNCHANGED <<wk, client, sftp, dst, isUpload, aside, modal, faults, calls, forced>>
  /\ rec' = NoRec

\* do_copy after copy_callback returned, not cancelled and successful in
\* confirm_selection: call_from_thread(self.refresh_file_list) runs the
\* listing in the foreground thread while the worker waits for it.
do_copy_refresh(w) ==
  /\ wk[w].pc = "done"
  /\ ~wk[w].cancelled /\ wk[w].result = "true" /\ wk[w].kind = "confirm"
  /\ fg.pc = "idle"
  /\ list_remote_files
  /\ wk' = [wk EXCEPT ![w].pc = "closing"]
  /\ UNCHANGED <<client, sftp, dst, isUpload, aside, modal, faults, calls, forced>>
  /\ rec' = NoRec

\* do_copy's end in action_direct_copy and confirm_selection: unless
\* cancelled, the worker pops the modal itself.  A cancelled do_copy of
\* action_navigate ends the same way, without a pop.
do_copy_finish(w) ==
  /\ \/ /\ wk[w].pc = "done"
        /\ wk[w].cancelled \/ wk[w].result # "true" \/ wk[w].kind # "confirm"
        /\ wk[w].cancelled \/ wk[w].kind # "navigate"
     \/ /\ wk[w].pc = "closing"
        /\ fg.pc = "idle"
  /\ wk' = [wk EXCEPT ![w] =
       [IdleWorker EXCEPT !.pc = "finished", !.cancelled = wk[w].cancelled]]
  /\ modal' = [modal EXCEPT ![w] = IF wk[w].cancelled THEN @ ELSE "popped"]
  /\ UNCHANGED <<fg, client, sftp, dst, isUpload, aside, faults, calls, forced>>
  /\ rec' = NoRec

\* ------------------------------------------------- connect / disconnect
\* SCPClient.connect() called by the owner of the client: rec keeps the
\* state it was called in and the value it returned.
connect ==
  /\ \E c \in connect_results(sftp) :
       /\ client' = c.client
       /\ sftp' = c.sftp
       /\ rec' = [place |-> "connect", client |-> client, sftp |-> sftp,
                  did |-> IF c.ok THEN "true" ELSE "false"]
  /\ UNCHANGED <<wk, fg, dst, isUpload, aside, modal, faults, calls, forced>>

\* Faulty variant of client_closed: the channel is left as it is (C19 fails
\* under it).
client_left_open(c) == c

\* self.client.close(): the transport is closed and dropped.
client_closed(c) == IF c = "none" THEN c ELSE "unconnected"

\* The close() calls disconnect makes, in order.
close_order(s, c) ==
  IF s # "none" /\ c # "none" THEN "sftp_then_client"
  ELSE IF s # "none" THEN "sftp"
  ELSE IF c # "none" THEN "client"
  ELSE "nothing"

\* SCPClient.disconnect(): if self.sftp: close it; if self.client: close it.
\* Neither field is reset, and close() on a closed object does nothing.
disconnect ==
  /\ sftp' = force_close(sftp)
  /\ client' = client_closed(client)
  /\ rec' = [place |-> "disconnect", client |-> client, sftp |-> sftp,
             did |-> close_order(sftp, client)]
  /\ UNCHANGED <<wk, fg, dst, isUpload, aside, modal, faults, calls, forced>>

\* ------------------------------------------- the content of a listing
\* Entries a directory may hold in one listing call.
MaxEntries == 3

\* File names as sequences of character codes: "B", "Z", "a", "b".
NameChoices == {<<66>>, <<90>>, <<97>>, <<98>>}

\* A raw directory entry: a file, a directory, or a symlink whose target is
\* a file, a directory, missing, or behind a directory that cannot be read.
RawEntries ==
  [name : NameChoices, kind : {"file", "dir"}, target : {"none"}]
    \cup [name : NameChoices, kind : {"link"}, target : {"file", "dir", "missing", "denied"}]

\* The contents a directory may have: no two entries share a name.
EntryLists ==
  {es \in UNION {[1..n -> RawEntries] : n \in 0..MaxEntries} :
     \A i, j \in 1..Len(es) : es[i].name = es[j].name => i = j}

\* What lstat / sftp.listdir_attr report: the attributes of the entry itself.
lstat_attr(e) ==
  [is_dir |-> e.kind = "dir",
   size |-> CASE e.kind = "file" -> 7 [] e.kind = "dir" -> 4 [] OTHER -> 3,
   mtime |-> 1]

\* Whether stat (which follows symlinks) succeeds on the entry.
stat_ok(e) == e.kind = "link" => e.target \in {"file", "dir"}

\* Faulty variant of stat_attr: the link is not followed (C15 fails under it).
stat_nofollow(e) == lstat_attr(e)

\* What Path.stat / sftp.stat report when they succeed: the attributes of
\* the resolved target.
stat_attr(e) ==
  IF e.kind = "link"
    THEN [is_dir |-> e.target = "dir",
          size |-> IF e.target = "dir" THEN 4 ELSE 9,
          mtime |-> 2]
    ELSE lstat_attr(e)

\* Faulty variant of reported_size: a directory's own size is reported (C17
\* fails under it).
reported_size_raw(is_dir, st_size) == st_size

\* size = st_size if not is_dir else 0
reported_size(is_dir, st_size) == IF is_dir THEN 0 ELSE st_size

\* list_remote_files, the body of its loop over listdir_attr: the tuple
\* appended for one entry.  readlink succeeds on any link; sftp.stat raises
\* when the target is missing or unreadable and the except clause marks
\* the link broken.
remote_entry(e) ==
  LET own == lstat_attr(e) IN
  IF e.kind = "link" /\ stat_ok(e)
    THEN [name |-> e.name, is_dir |-> stat_attr(e).is_dir,
          size |-> reported_size(stat_attr(e).is_dir, stat_attr(e).size),
          is_symlink |-> TRUE, symlink_target |-> "path",
          target_is_dir |-> stat_attr(e).is_dir, mtime |-> stat_attr(e).mtime]
  ELSE [name |-> e.name, is_dir |-> own.is_dir,
        size |-> reported_size(own.is_dir, own.size),
        is_symlink |-> e.kind = "link",
        symlink_target |-> IF e.kind = "link" THEN "(broken link)" ELSE "",
        target_is_dir |-> FALSE, mtime |-> own.mtime]

\* list_local_files, the body of its loop over iterdir up to items.append,
\* for an entry on which item.stat() succeeds: is_dir and the target test
\* follow the link, size and mtime come from item.stat().
local_entry(e) ==
  LET st == stat_attr(e) IN
  [name |-> e.name, is_dir |-> st.is_dir,
   size |-> reported_size(st.is_dir, st.size),
   is_symlink |-> e.kind = "link",
   symlink_target |-> IF e.kind = "link" THEN "path" ELSE "",
   target_is_dir |-> e.kind = "link" /\ st.is_dir, mtime |-> st.mtime]

\* str.lower() on one character code.
Lower(c) == IF c >= 65 /\ c <= 90 THEN c + 32 ELSE c
LowerName(n) == [i \in 1..Len(n) |-> Lower(n[i])]

RECURSIVE StrLess(_, _)
\* Python's < on two strings: lexicographic by character code.
StrLess(a, b) ==
  IF b = << >> THEN FALSE
  ELSE IF a = << >> THEN TRUE
  ELSE IF Head(a) # Head(b) THEN Head(a) < Head(b)
  ELSE StrLess(Tail(a), Tail(b))

\* Faulty variant of SortKeyLess: names are compared as they are (C16 fails
\* under it).
SortKeyLessCase(x, y) ==
  \/ x.is_dir /\ ~y.is_dir
  \/ x.is_dir = y.is_dir /\ StrLess(x.name, y.name)

\* key=lambda x: (not x[1], x[0].lower()): whether x's key is below y's.
SortKeyLess(x, y) ==
  \/ x.is_dir /\ ~y.is_dir
  \/ x.is_dir = y.is_dir /\ StrLess(LowerName(x.name), LowerName(y.name))

RECURSIVE InsertSorted(_, _)
\* x placed behind every element whose key is not above its own.
InsertSorted(x, s) ==
  IF s = << >> THEN <<x>>
  ELSE IF SortKeyLess(x, Head(s)) THEN <<x>> \o s
  ELSE <<Head(s)>> \o InsertSorted(x, Tail(s))

RECURSIVE sorted(_)
\* sorted(items, key=...): ascending and stable.
sorted(s) ==
  IF s = << >> THEN << >>
  ELSE InsertSorted(s[Len(s)], sorted(SubSeq(s, 1, Len(s) - 1)))

\* list_remote_files on a healthy session: what it returns for a directory.
ListRemote(es) == sorted([i \in 1..Len(es) |-> remote_entry(es[i])])

\* list_local_files: item.stat() raises on an entry whose target is missing
\* or unreadable, the outer except returns []; else the sorted tuples.
ListLocal(es) ==
  IF \E i \in 1..Len(es) : ~stat_ok(es[i]) THEN << >>
  ELSE sorted([i \in 1..Len(es) |-> local_entry(es[i])])

NoListing == [by |-> "none", items |-> << >>]

\* list_local_files(path) is called on the directory and returns.
list_local_files ==
  /\ listing.by = "none"
  /\ listing' = [by |-> "local", items |-> ListLocal(entries)]
  /\ UNCHANGED <<wk, fg, client, sftp, dst, isUpload, modal, faults, calls, forced, rec,
                 entries, remote, mk, cli, parsed, prog, probe, others>>

\* list_remote_files(path) is called on the directory and returns its
\* first attempt's result.
list_remote_entries ==
  /\ listing.by = "none"
  /\ listing' = [by |-> "remote", items |-> ListRemote(entries)]
  /\ UNCHANGED <<wk, fg, client, sftp, dst, isUpload, modal, faults, calls, forced, rec,
                 entries, remote, mk, cli, parsed, prog, probe, others>>

\* -------------------------------------------------- _create_remote_directory
\* Path components and the depth of the remote tree.
Comps == {"a", "b"}
MaxDepth == 2

\* Absolute remote paths as sequences of components; << >> is "/".
Paths == UNION {[1..n -> Comps] : n \in 0..MaxDepth}

EmptyRemote == [p \in Paths |-> IF p = << >> THEN "dir" ELSE "absent"]

\* mk: the path of the last call, the requests it sent (log), how it ended
\* ("ok": returned, "raise": an exception left it) and the calls made so far.
NoMk == [path |-> << >>, log |-> << >>, outcome |-> "none", n |-> 0]

\* Calls of _create_remote_directory in one behaviour.
MaxMkCalls == 2

\* os.path.dirname(remote_dir)
Parent(p) == SubSeq(p, 1, Len(p) - 1)

\* The path and its ancestors below the root.
Prefixes(p) == {SubSeq(p, 1, k) : k \in 1..Len(p)}

\* Faulty variant of stat_found: existence is not looked at (C20 fails
\* under it).
stat_found_never(tree, p) == FALSE

\* self.sftp.stat(remote_dir) returns (anything is at the path) instead of
\* raising FileNotFoundError.
stat_found(tree, p) == tree[p] # "absent"

\* self.sftp.mkdir(remote_dir): the request is logged; it creates the
\* directory when the parent is a directory and raises otherwise.
sftp_mkdir(st, p) ==
  IF st.tree[Parent(p)] = "dir" /\ st.tree[p] = "absent"
    THEN [st EXCEPT !.tree = [@ EXCEPT ![p] = "dir"],
                    !.log = Append(@, [op |-> "mkdir", path |-> p])]
    ELSE [st EXCEPT !.log = Append(@, [op |-> "mkdir", path |-> p]), !.ok = FALSE]

RECURSIVE CreateRemoteDirectory(_, _)
\* _create_remote_directory(remote_dir) run on st = [tree, log, ok]: return
\* at the root; stat; on FileNotFoundError the parent first, then mkdir.  An
\* exception (ok = FALSE) passes through every caller.
CreateRemoteDirectory(p, st) ==
  IF p = << >> THEN st
  ELSE LET st1 == [st EXCEPT !.log = Append(@, [op |-> "stat", path |-> p])] IN
       IF stat_found(st.tree, p) THEN st1
       ELSE LET st2 == CreateRemoteDirectory(Parent(p), st1) IN
            IF st2.ok THEN sftp_mkdir(st2, p) ELSE st2

\* Someone creates a directory or a file on the remote side before the call.
remote_add(p, kind) ==
  /\ mk.n = 0
  /\ p # << >>
  /\ remote[p] = "absent"
  /\ remote[Parent(p)] = "dir"
  /\ remote' = [remote EXCEPT ![p] = kind]
  /\ UNCHANGED <<wk, fg, client, sftp, dst, isUpload, modal, faults, calls, forced, rec,
                 entries, listing, mk, cli, parsed, prog, probe, others>>

\* _create_remote_directory(p) is called and ends; a later call is made
\* with the same path.
create_remote_directory(p) ==
  LET st == CreateRemoteDirectory(p, [tree |-> remote, log |-> << >>, ok |-> TRUE]) IN
  /\ mk.n < MaxMkCalls
  /\ mk.n > 0 => p = mk.path
  /\ remote' = st.tree
  /\ mk' = [path |-> p, log |-> st.log, outcome |-> IF st.ok THEN "ok" ELSE "raise",
            n |-> mk.n + 1]
  /\ UNCHANGED <<wk, fg, client, sftp, dst, isUpload, modal, faults, calls, forced, rec,
                 entries, listing, cli, parsed, prog, probe, others>>

\* ------------------------------------------------------ parse_remote_path
\* A command-line argument is a string: a sequence of characters.  The empty
\* sequence also stands for Python's None where a string is optional.
Chars == {"u", "@", ":", "2", "/"}
\* Longest argument handed to parse_remote_path.
MaxLen == 6
Strings == UNION {[1..n -> Chars] : n \in 0..MaxLen}

\* \d
Digits == {"2"}

RECURSIVE ToInt(_)
\* int(port) of a string of digits
ToInt(d) ==
  IF d = << >> THEN 0
  ELSE ToInt(SubSeq(d, 1, Len(d) - 1)) * 10 + (IF d[Len(d)] = "2" THEN 2 ELSE 0)

\* port=... else 22, and the default of -P/--port
DefaultPort == 22

\* The ways ^(?:([^@]+)@)?([^:]+)(?::(\d+))?:(.*)$ matches the whole of s,
\* as <<a, b, c>>: a is the index of the '@' ending the user group (0: the
\* group did not take part), b the index of the last character of the host,
\* c the index of the ':' ending the port group (0: the group did not take
\* part).  The path is what follows the last ':' matched.
Splits(s) ==
  {m \in (0..Len(s)) \X (1..Len(s)) \X (0..Len(s)) :
     /\ \/ m[1] = 0
        \/ /\ m[1] >= 2
           /\ s[m[1]] = "@"
           /\ \A i \in 1..(m[1] - 1) : s[i] # "@"
     /\ m[2] > m[1]
     /\ \A i \in (m[1] + 1)..m[2] : s[i] # ":"
     /\ m[2] < Len(s)
     /\ s[m[2] + 1] = ":"
     /\ \/ m[3] = 0
        \/ /\ m[3] >= m[2] + 3
           /\ s[m[3]] = ":"
           /\ \A i \in (m[2] + 2)..(m[3] - 1) : s[i] \in Digits}

\* Faulty variant of Before: the port group is tried last, so a digit
\* segment is left in the path (C22 fails under it).
BeforeLazyPort(m, n) ==
  \/ (m[1] > 0) /\ (n[1] = 0)
  \/ (m[1] > 0) = (n[1] > 0) /\ m[1] > n[1]
  \/ m[1] = n[1] /\ m[2] > n[2]
  \/ m[1] = n[1] /\ m[2] = n[2] /\ (m[3] = 0) /\ (n[3] > 0)
  \/ m[1] = n[1] /\ m[2] = n[2] /\ (m[3] > 0) = (n[3] > 0) /\ m[3] > n[3]

\* The order in which the regex engine tries the matches: an optional group
\* is tried present before absent, and + takes the longest run first.
Before(m, n) ==
  \/ (m[1] > 0) /\ (n[1] = 0)
  \/ (m[1] > 0) = (n[1] > 0) /\ m[1] > n[1]
  \/ m[1] = n[1] /\ m[2] > n[2]
  \/ m[1] = n[1] /\ m[2] = n[2] /\ (m[3] > 0) /\ (n[3] = 0)
  \/ m[1] = n[1] /\ m[2] = n[2] /\ (m[3] > 0) = (n[3] > 0) /\ m[3] > n[3]

NoMatch == <<0, 0, 0>>

\* re.match(pattern, path): the first match tried that succeeds.
re_match(s) ==
  IF Splits(s) = {} THEN NoMatch
  ELSE CHOOSE m \in Splits(s) : \A n \in Splits(s) : n = m \/ Before(m, n)

\* match.groups(): a group that did not take part is None.
groups(s, m) ==
  [user |-> SubSeq(s, 1, m[1] - 1),
   host |-> SubSeq(s, m[1] + 1, m[2]),
   port |-> IF m[3] = 0 THEN << >> ELSE SubSeq(s, m[2] + 2, m[3] - 1),
   path |-> IF m[3] = 0 THEN SubSeq(s, m[2] + 2, Len(s)) ELSE SubSeq(s, m[3] + 1, Len(s))]

\* What parse_remote_path returns for a local path (None): no host.
NoRemotePath == [user |-> << >>, host |-> << >>, path |-> << >>, port |-> 0]

parse_remote_path(s) ==
  LET m == re_match(s)
      g == groups(s, m) IN
  IF m = NoMatch THEN NoRemotePath
  ELSE [user |-> g.user, host |-> g.host, path |-> g.path,
        port |-> IF g.port # << >> THEN ToInt(g.port) ELSE DefaultPort]

NoParsed == [arg |-> << >>, result |-> NoRemotePath, called |-> FALSE]

\* parse_remote_path(parsed.arg) is called and returns.
call_parse_remote_path ==
  /\ ~parsed.called
  /\ parsed' = [parsed EXCEPT !.result = parse_remote_path(parsed.arg), !.called = TRUE]
  /\ UNCHANGED <<engine, entries, listing, remote, mk, cli, prog, probe, others>>

\* ------------------------------------------------------------------ main
\* The arguments of one run: a local path, a remote path without user, and
\* remote paths with user, without port and with the ports 2 and 22.
ArgChoices ==
  { <<"/">>,
    <<"u", ":", "/">>,
    <<"u", "@", "u", ":", "/">>,
    <<"u", "@", "u", ":", "2", ":", "/">>,
    <<"u", "@", "u", ":", "2", "2", ":", "/">> }

\* Values of args.port: the default and a port given with -P.
PortFlags == {DefaultPort, 2222}

NoConfig == [remote |-> NoRemotePath, is_upload |-> FALSE, interactive_side |-> "none"]

\* cli.pc: "start" -> "configured" -> "connected" -> "finally" -> "exit";
\* started is the transfer or browser main started, connected what connect()
\* returned.
NoCli ==
  [pc |-> "idle", source |-> << >>, target |-> << >>, port |-> DefaultPort,
   interactive_right |-> FALSE, config |-> NoConfig, connected |-> FALSE,
   started |-> "none"]

is_remote(r) == r # NoRemotePath

\* Faulty variant of usage_error: the username is not required (C23 fails
\* under it).
usage_error_no_user_check(source_remote, target_remote) ==
  \/ is_remote(source_remote) /\ is_remote(target_remote)
  \/ ~is_remote(source_remote) /\ ~is_remote(target_remote)

\* parse_arguments' calls of parser.error (SystemExit).
usage_error(source_remote, target_remote) ==
  \/ is_remote(source_remote) /\ is_remote(target_remote)
  \/ ~is_remote(source_remote) /\ ~is_remote(target_remote)
  \/ (IF is_remote(target_remote) THEN target_remote ELSE source_remote).user = << >>

\* if remote.port == 22 and args.port != 22: remote.port = args.port
resolve_port(remote_port, args_port) ==
  IF remote_port = DefaultPort /\ args_port # DefaultPort THEN args_port ELSE remote_port

\* interactive_side: the remote side, reversed by -R.
interactive_side(is_upload, interactive_right) ==
  IF is_upload = interactive_right THEN "source" ELSE "target"

\* config = parse_arguments(), SystemExit making main return.
parse_arguments ==
  LET source_remote == parse_remote_path(cli.source)
      target_remote == parse_remote_path(cli.target)
      is_upload == is_remote(target_remote)
      remote_path == IF is_upload THEN target_remote ELSE source_remote IN
  /\ cli.pc = "start"
  /\ cli' = IF usage_error(source_remote, target_remote)
              THEN [cli EXCEPT !.pc = "exit"]
              ELSE [cli EXCEPT !.pc = "configured",
                      !.config = [remote |-> [remote_path EXCEPT
                                                !.port = resolve_port(@, cli.port)],
                                  is_upload |-> is_upload,
                                  interactive_side |->
                                    interactive_side(is_upload, cli.interactive_right)]]
  /\ UNCHANGED <<engine, entries, listing, remote, mk, parsed, prog, probe, others>>

\* if not scp_client.connect(): return
main_connect ==
  /\ cli.pc = "configured"
  /\ \E c \in connect_results(sftp) :
       /\ client' = c.client
       /\ sftp' = c.sftp
       /\ cli' = [cli EXCEPT !.pc = IF c.ok THEN "connected" ELSE "exit",
                             !.connected = c.ok]
  /\ UNCHANGED <<wk, fg, dst, isUpload, modal, faults, calls, forced, rec,
                 entries, listing, remote, mk, parsed, prog, probe, others>>

\* What the body of main starts: exists / is_dir are what remote_exists and
\* is_remote_dir answered for the remote path, local is what is at the local
\* path.
main_starts(config, exists, is_dir, local) ==
  LET is_interactive_remote ==
        \/ config.interactive_side = "target" /\ config.is_upload
        \/ config.interactive_side = "source" /\ ~config.is_upload IN
  IF is_interactive_remote
    THEN IF ~exists THEN "none"
         ELSE IF is_dir
           THEN IF config.is_upload /\ local = "absent" THEN "none" ELSE "browser"
         ELSE IF config.is_upload THEN "none" ELSE "download_file"
    ELSE IF local = "dir"
           THEN IF ~config.is_upload /\ ~is_dir /\ ~exists THEN "none" ELSE "browser"
         ELSE IF config.is_upload THEN "upload_file" ELSE "none"

\* The try block of main, up to the return of the browser or of the single
\* transfer: kind and local are what is at the remote and at the local path,
\* answered whether the probes of the remote side are answered.
main_body ==
  /\ cli.pc = "connected"
  /\ \E kind \in {"absent", "file", "dir"}, local \in {"absent", "file", "dir"},
        answered \in BOOLEAN :
       cli' = [cli EXCEPT !.pc = "finally",
                 !.started = main_starts(cli.config, answered /\ kind # "absent",
                                         answered /\ kind = "dir", local)]
  /\ UNCHANGED <<engine, entries, listing, remote, mk, parsed, prog, probe, others>>

\* finally: scp_client.disconnect()
main_finally ==
  /\ cli.pc = "finally"
  /\ cli' = [cli EXCEPT !.pc = "exit"]
  /\ sftp' = force_close(sftp)
  /\ client' = client_closed(client)
  /\ UNCHANGED <<wk, fg, dst, isUpload, modal, faults, calls, forced, rec,
                 entries, listing, remote, mk, parsed, prog, probe, others>>

\* ------------------------------------------------ the percentage arithmetic
\* The callback computes its percentages in Python floats (IEEE-754 binary64,
\* round to nearest, ties to even).  A non-negative float is modelled exactly:
\* int is its integer part and frac its fraction as a sequence of limbs of
\* LimbBits bits each, most significant first, of which the first `bits` bits
\* are significant (the others are 0).
MantissaBits == 53
LimbBits == 8
Base == 2 ^ LimbBits

RECURSIVE BitLen(_)
\* int.bit_length()
BitLen(n) == IF n = 0 THEN 0 ELSE 1 + BitLen(n \div 2)

Limbs(n) == (n + LimbBits - 1) \div LimbBits

Limb(f, j) == IF j <= Len(f) THEN f[j] ELSE 0

\* Bit j of a fraction (bit 1 is worth 1/2).
Bit(f, j) ==
  (Limb(f, (j - 1) \div LimbBits + 1) \div (2 ^ (LimbBits - 1 - ((j - 1) % LimbBits)))) % 2

\* The first n bits of a fraction.
Keep(f, n) ==
  [j \in 1..Limbs(n) |->
     IF j * LimbBits <= n THEN Limb(f, j)
     ELSE Limb(f, j) - (Limb(f, j) % (2 ^ (j * LimbBits - n)))]

\* Some bit after the first n bits is set.
Below(f, n) ==
  \E j \in 1..Len(f) :
    /\ j * LimbBits > n
    /\ IF (j - 1) * LimbBits >= n THEN f[j] # 0 ELSE f[j] % (2 ^ (j * LimbBits - n)) # 0

\* Leading zero bits of a fraction.
LeadingZeros(f) ==
  Cardinality({j \in 1..(Len(f) * LimbBits) : ~Below(Keep(f, j), 0)})

\* The last significant bit of x is set.
Odd(x) == IF x.bits = 0 THEN x.int % 2 = 1 ELSE Bit(x.frac, x.bits) = 1

\* x plus one unit in its last significant bit.
Increment(x) ==
  LET n == Len(x.frac)
      ulp == 2 ^ (n * LimbBits - x.bits)
      carry(j) == /\ x.frac[n] + ulp = Base
                  /\ \A h \in (j + 1)..(n - 1) : x.frac[h] = Base - 1 IN
  IF n = 0 THEN [x EXCEPT !.int = @ + 1]
  ELSE [int |-> IF carry(0) THEN x.int + 1 ELSE x.int,
        frac |-> [j \in 1..n |-> IF j = n THEN (x.frac[n] + ulp) % Base
                                 ELSE IF carry(j) THEN (x.frac[j] + 1) % Base
                                 ELSE x.frac[j]],
        bits |-> x.bits]

\* Round to nearest, ties to even: the exact value is int + frac + (something
\* below the last limb iff sticky); n fraction bits are kept.
Round(int, frac, sticky, n) ==
  LET kept == [int |-> int, frac |-> Keep(frac, n), bits |-> n]
      first == Bit(frac, n + 1) = 1
      more == Below(frac, n + 1) \/ sticky IN
  IF first /\ (more \/ Odd(kept)) THEN Increment(kept) ELSE kept

\* Fraction bits of a float with integer part int: MantissaBits significant
\* bits in all, counted from the first set bit.
FractionBits(int, zeros) ==
  IF int > 0 THEN MantissaBits - BitLen(int) ELSE zeros + MantissaBits

RECURSIVE DivLimbs(_, _, _)
\* The first n limbs of the fraction r / d (r < d): long division.
DivLimbs(r, d, n) ==
  IF n = 0 THEN << >> ELSE <<(r * Base) \div d>> \o DivLimbs((r * Base) % d, d, n - 1)

RECURSIVE DivRem(_, _, _)
\* The remainder long division is left with after n limbs.
DivRem(r, d, n) == IF n = 0 THEN r ELSE DivRem((r * Base) % d, d, n - 1)

\* a / d in floats, for integers a >= 0 and d > 0 (both are exact as floats).
FloatDiv(a, d) ==
  LET int == a \div d
      r == a % d
      n == IF r = 0 THEN 0 ELSE FractionBits(int, BitLen((d - 1) \div r) - 1)
      len == Limbs(n + 1) IN
  Round(int, DivLimbs(r, d, len), DivRem(r, d, len) # 0, n)

RECURSIVE MulLimbs(_, _)
\* frac * c exactly: the fraction of the product and the carry into the
\* integer part.
MulLimbs(f, c) ==
  IF f = << >> THEN [carry |-> 0, frac |-> << >>]
  ELSE LET rest == MulLimbs(Tail(f), c)
           v == f[1] * c + rest.carry IN
       [carry |-> v \div Base, frac |-> <<v % Base>> \o rest.frac]

\* x * c in floats, for an integer c > 0.
FloatMul(x, c) ==
  LET p == MulLimbs(x.frac, c)
      int == x.int * c + p.carry IN
  IF ~Below(p.frac, 0) THEN [int |-> int, frac |-> << >>, bits |-> 0]
  ELSE Round(int, p.frac, FALSE, FractionBits(int, LeadingZeros(p.frac)))

\* a - b >= 1.  The callback evaluates a - b in floats first; a and b are
\* percentages with b = 0 or b >= 1, so both are multiples of 2^-52 below 128
\* and a difference in [1/2, 2) is exact: the float test and the exact test
\* agree.
FloatGeOneApart(a, b) ==
  \/ a.int - b.int >= 2
  \/ /\ a.int - b.int = 1
     /\ ~\E j \in 1..Len(b.frac) :
           /\ Limb(a.frac, j) < b.frac[j]
           /\ \A h \in 1..(j - 1) : Limb(a.frac, h) = b.frac[h]

\* f"{x:.0f}": x rounded to an integer, ties to even.
Format0f(x) ==
  IF Bit(x.frac, 1) = 1 /\ (Below(x.frac, 1) \/ x.int % 2 = 1) THEN x.int + 1 ELSE x.int

\* (transferred / total * 100) if total > 0 else 0
progress_percent(transferred, total) ==
  IF total > 0 THEN FloatMul(FloatDiv(transferred, total), 100)
  ELSE [int |-> 0, frac |-> << >>, bits |-> 0]

\* -------------------------------------------- the byte-progress callback
\* The transfers a leaf is observed on, as <<file size, chunk size>>:
\* paramiko's put / get call the callback once after every chunk written
\* (32768 bytes each, the last one shorter), with the bytes moved so far and
\* the file size; it makes no call for an empty file.  <<1024, 512>> is the
\* pair of callbacks (512, 1024), (1024, 1024).
Transfers ==
  {<<1024, 512>>, <<100000, 32768>>, <<163841, 32768>>, <<3276800, 32768>>,
   <<6553600, 32768>>}

\* prog: total and chunk of the transfer, sink (progress_callback is given),
\* cancel (what cancel_check answers now), transferred (the count of the
\* last callback), last_reported[0], the events handed to the sink, each
\* with its byte count and the percentage its message shows, pc ("idle",
\* "put", "done", "cancelled"), and completed_items, the counter of the
\* ProgressModal the sink hands its messages to.
NoProg ==
  [total |-> 0, chunk |-> 0, sink |-> FALSE, cancel |-> FALSE, transferred |-> 0,
   last_reported |-> 0, events |-> << >>, pc |-> "idle", completed_items |-> 0]

\* ProgressModal.update_status(message) on a progress message: the number
\* before "%)" is read back from the text, and the counter is incremented
\* when it is 100.
update_status(completed_items, percentage) ==
  IF percentage = 100 THEN completed_items + 1 ELSE completed_items

\* transferred == total or progress_percent - last_percent >= 1
report_due(transferred, total, last) ==
  \/ transferred = total
  \/ FloatGeOneApart(progress_percent(transferred, total), progress_percent(last, total))

\* The next call of check_cancel_and_report(transferred, total) by put / get;
\* the sink is the browser's update_progress, which runs update_status in
\* the foreground thread before it returns.
put_callback ==
  LET transferred == IF prog.transferred + prog.chunk < prog.total
                       THEN prog.transferred + prog.chunk ELSE prog.total
      due == prog.sink /\ report_due(transferred, prog.total, prog.last_reported)
      shown == Format0f(progress_percent(transferred, prog.total)) IN
  /\ prog.pc = "put"
  /\ prog' =
       IF prog.cancel
         THEN [prog EXCEPT !.pc = "cancelled"]
         ELSE [prog EXCEPT
                 !.transferred = transferred,
                 !.events = IF due THEN Append(@, [bytes |-> transferred, percent |-> shown])
                            ELSE @,
                 !.last_reported = IF due THEN transferred ELSE @,
                 !.completed_items = IF due THEN update_status(@, shown) ELSE @,
                 !.pc = IF transferred = prog.total THEN "done" ELSE "put"]
  /\ UNCHANGED <<engine, entries, listing, remote, mk, cli, parsed, probe, others>>

\* The user presses Cancel during the transfer: cancel_check() turns true.
cancel_during_put ==
  /\ prog.pc = "put"
  /\ ~prog.cancel
  /\ prog' = [prog EXCEPT !.cancel = TRUE]
  /\ UNCHANGED <<engine, entries, listing, remote, mk, cli, parsed, probe, others>>

\* ------------------------- remote_exists, is_remote_dir, expand_remote_path
\* probe: the call made (op), its argument, what the server answered and
\* how the call ended: result is "true" / "false" or, for expand_remote_path,
\* "path"; value is the string expand_remote_path returned; outcome is
\* "returned" or "raised".
NoProbe ==
  [op |-> "none", path |-> << >>, kind |-> "none", answer |-> "none",
   home |-> [raised |-> FALSE, out |-> << >>], result |-> "none",
   value |-> << >>, outcome |-> "none"]

\* self.sftp.stat(path): the answers the call can get.  On a closed channel
\* it raises; the server answers a missing path with "no such file"
\* (FileNotFoundError), and any path the login may not search with
\* "permission denied" (PermissionError).
sftp_stat(tree, s, p) ==
  IF ~usable(s) THEN {"closed"}
  ELSE IF tree[p] = "absent" THEN {"no_such_file", "permission_denied"}
  ELSE {"attrs", "permission_denied"}

\* Faulty variant of stat_failed: the exception is let through (C29 fails
\* under it).
stat_failed_raises(answer) == [result |-> "none", outcome |-> "raised"]

\* except FileNotFoundError: return False / except Exception: return False
stat_failed(answer) == [result |-> "false", outcome |-> "returned"]

Bool(b) == IF b THEN "true" ELSE "false"

\* remote_exists(p)
remote_exists(p) ==
  /\ probe.op = "none"
  /\ IF sftp = "none"
       THEN probe' = [probe EXCEPT !.op = "remote_exists", !.path = p,
                        !.kind = remote[p], !.result = "false", !.outcome = "returned"]
       ELSE \E answer \in sftp_stat(remote, sftp, p) :
              LET ended == IF answer = "attrs"
                           THEN [result |-> "true", outcome |-> "returned"]
                           ELSE stat_failed(answer) IN
              probe' = [probe EXCEPT !.op = "remote_exists", !.path = p,
                          !.kind = remote[p], !.answer = answer, !.result = ended.result,
                          !.outcome = ended.outcome]
  /\ UNCHANGED <<engine, entries, listing, remote, mk, cli, parsed, prog, others>>

\* is_remote_dir(p)
is_remote_dir(p) ==
  /\ probe.op = "none"
  /\ IF sftp = "none"
       THEN probe' = [probe EXCEPT !.op = "is_remote_dir", !.path = p,
                        !.kind = remote[p], !.result = "false", !.outcome = "returned"]
       ELSE \E answer \in sftp_stat(remote, sftp, p) :
              LET ended == IF answer = "attrs"
                           THEN [result |-> Bool(remote[p] = "dir"),
                                 outcome |-> "returned"]
                           ELSE stat_failed(answer) IN
              probe' = [probe EXCEPT !.op = "is_remote_dir", !.path = p,
                          !.kind = remote[p], !.answer = answer, !.result = ended.result,
                          !.outcome = ended.outcome]
  /\ UNCHANGED <<engine, entries, listing, remote, mk, cli, parsed, prog, others>>

\* Entries created on the remote side before a probe is made.
MaxPopulated == 2

\* Someone creates a directory or a file on the remote side.
remote_populate(p, kind) ==
  /\ Cardinality({q \in Paths : remote[q] # "absent"}) <= MaxPopulated
  /\ remote_add(p, kind)

\* Remote path strings handed to expand_remote_path.
PathChars == {"~", "/", "x"}
MaxPathLen == 3
PathStrings == UNION {[1..n -> PathChars] : n \in 0..MaxPathLen}

\* What 'echo $HOME' can write to stdout: nothing, an empty line, the home
\* directory followed by a newline.
HomeOutputs == {<< >>, <<"\n">>, <<"/", "x", "\n">>}

\* self.client.exec_command('echo $HOME') and stdout.read(): it raises
\* without a live transport and may raise on one (the channel is refused).
exec_echo_home(c) ==
  {[raised |-> TRUE, out |-> << >>]} \cup
    (IF transport_active(c) THEN {[raised |-> FALSE, out |-> o] : o \in HomeOutputs} ELSE {})

\* No home query is made.
NotAsked == [raised |-> FALSE, out |-> << >>]

Whitespace == {"\n", " "}

\* str.strip(): leading and trailing whitespace removed.
strip(s) ==
  LET keep == {i \in 1..Len(s) : s[i] \notin Whitespace} IN
  IF keep = {} THEN << >>
  ELSE SubSeq(s, CHOOSE i \in keep : \A j \in keep : i <= j,
                 CHOOSE i \in keep : \A j \in keep : i >= j)

startswith(s, prefix) == Len(s) >= Len(prefix) /\ SubSeq(s, 1, Len(prefix)) = prefix

\* Faulty variant of query_failed: the exception is let through (C30 fails
\* under it).
query_failed_raises(remote_path) == [value |-> << >>, outcome |-> "raised"]

\* except Exception: return remote_path
query_failed(remote_path) == [value |-> remote_path, outcome |-> "returned"]

\* expand_remote_path(remote_path) with the client in state c and the home
\* query answering answer.
ExpandRemotePath(remote_path, c, answer) ==
  IF remote_path = << >> \/ c = "none" THEN [value |-> remote_path, outcome |-> "returned"]
  ELSE IF startswith(remote_path, <<"~">>)
    THEN IF answer.raised THEN query_failed(remote_path)
         ELSE LET home_dir == strip(answer.out) IN
              IF home_dir # << >> /\ remote_path = <<"~">>
                THEN [value |-> home_dir, outcome |-> "returned"]
              ELSE IF home_dir # << >> /\ startswith(remote_path, <<"~", "/">>)
                THEN [value |-> home_dir \o Tail(remote_path), outcome |-> "returned"]
              ELSE [value |-> remote_path, outcome |-> "returned"]
  ELSE [value |-> remote_path, outcome |-> "returned"]

\* expand_remote_path(p)
expand_remote_path(p) ==
  /\ probe.op = "none"
  /\ \E answer \in IF p # << >> /\ client # "none" /\ startswith(p, <<"~">>)
                     THEN exec_echo_home(client) ELSE {NotAsked} :
       LET ended == ExpandRemotePath(p, client, answer) IN
       probe' = [probe EXCEPT !.op = "expand_remote_path", !.path = p,
                   !.home = answer, !.result = "path", !.value = ended.value,
                   !.outcome = ended.outcome]
  /\ UNCHANGED <<engine, entries, listing, remote, mk, cli, parsed, prog, others>>

\* --------------------------------------------- the upload of a selection
\* Path strings of the upload are sequences of tokens: "/" or a name.
\* The server resolves a path string to its components.
Components(s) == SelectSeq(s, LAMBDA t : t # "/")

RECURSIVE rstrip(_)
\* str.rstrip('/')
rstrip(s) ==
  IF s # << >> /\ s[Len(s)] = "/" THEN rstrip(SubSeq(s, 1, Len(s) - 1)) ELSE s

\* Path(item_path).name: the last name of the path, trailing slashes aside.
path_name(s) == LET t == rstrip(s) IN IF t = << >> THEN "" ELSE t[Len(t)]

\* os.path.dirname(remote_path): everything up to the last slash, without
\* its trailing slashes unless it consists of slashes only.
dirname(s) ==
  LET slashes == {i \in 1..Len(s) : s[i] = "/"}
      head == IF slashes = {} THEN << >>
              ELSE SubSeq(s, 1, CHOOSE i \in slashes : \A j \in slashes : j <= i)
  IN IF rstrip(head) = << >> THEN head ELSE rstrip(head)

\* Faulty variant of remote_item: the directory part is dropped (C31 fails
\* under it).
remote_item_flat(remote_dir, item_name) == <<"/", item_name>>

\* f"{remote_dir}/{item.name}" in upload_directory and
\* f"{target_base.rstrip('/')}/{item_name}" in perform_copy.
remote_item(remote_dir, item_name) == remote_dir \o <<"/", item_name>>

\* The remote paths an upload can touch: the target bases "/" and
\* "/remote/out", their ancestors, and up to three names below a base.
UpPaths ==
  {<< >>, <<"remote">>, <<"remote", "out">>}
    \cup {b \o q : b \in {<< >>, <<"remote", "out">>},
                   q \in UNION {[1..n -> Nodes] : n \in 1..3}}

\* The directory the selection is taken from.
LocalBase == <<"/", "home">>

\* up: the selection (nodes, and items as the browser builds their paths),
\* the target base, the local files whose put fails (bad), the remote tree,
\* what each leaf transfer returned and what perform_copy returned.
NoUp ==
  [pc |-> "none", nodes |-> << >>, items |-> << >>, target_base |-> << >>, bad |-> {},
   before |-> "none", tree |-> << >>, leaf |-> [f \in Files |-> "none"],
   result |-> "none"]

\* self.sftp.put(local_path, remote_path): the file is written when its
\* directory exists and the transfer does not fail; otherwise put raises.
sftp_put(st, local, p, bad) ==
  IF path_name(local) \in bad \/ st.tree[Parent(p)] # "dir" \/ st.tree[p] = "dir"
    THEN [st EXCEPT !.ok = FALSE]
    ELSE [st EXCEPT !.tree = [@ EXCEPT ![p] = "file"]]

\* upload_file(local_path, remote_path) with a false predicate, run on
\* st = [tree, log, ok, leaf, ret]: stat of the remote directory, on
\* FileNotFoundError _create_remote_directory, then put.  Any exception is
\* caught: return False.
UploadFile(local, remote_path, st, bad) ==
  LET remote_dir == dirname(remote_path)
      st1 == IF remote_dir # << >> /\ ~stat_found(st.tree, Components(remote_dir))
               THEN CreateRemoteDirectory(Components(remote_dir), st)
               ELSE st
      st2 == IF st1.ok THEN sftp_put(st1, local, Components(remote_path), bad) ELSE st1
  IN [st2 EXCEPT !.ok = TRUE, !.ret = st2.ok,
                 !.leaf = [@ EXCEPT ![path_name(local)] =
                             IF st2.ok THEN "true" ELSE "false"]]

RECURSIVE UploadDirectory(_, _, _, _)
RECURSIVE UploadLoop(_, _, _, _, _, _)
\* upload_directory(local_dir, remote_dir) with a false predicate:
\* _create_remote_directory(remote_dir), then the loop over iterdir().
UploadDirectory(local_dir, remote_dir, st, bad) ==
  LET st1 == CreateRemoteDirectory(Components(remote_dir), st) IN
  IF ~st1.ok THEN [st1 EXCEPT !.ok = TRUE, !.ret = FALSE]
  ELSE UploadLoop(local_dir, remote_dir, Children(path_name(local_dir)), TRUE, st1, bad)

\* for item in local_path.iterdir(): ... all_success
UploadLoop(local_dir, remote_dir, kids, all_success, st, bad) ==
  IF kids = << >> THEN [st EXCEPT !.ret = all_success]
  ELSE LET local_item == local_dir \o <<"/", Head(kids)>>
           remote_path == remote_item(remote_dir, path_name(local_item))
           st1 == IF Head(kids) \in Dirs
                    THEN UploadDirectory(local_item, remote_path, st, bad)
                    ELSE UploadFile(local_item, remote_path, st, bad)
       IN UploadLoop(local_dir, remote_dir, Tail(kids), all_success /\ st1.ret, st1, bad)

RECURSIVE PerformCopy(_, _, _, _, _)
\* perform_copy's loop over selected_items for an upload, predicate false.
PerformCopy(items, target_base, all_success, st, bad) ==
  IF items = << >> THEN [st EXCEPT !.ret = all_success]
  ELSE LET item_path == Head(items)
           item_name == path_name(item_path)
           remote_path == remote_item(rstrip(target_base), item_name)
           st1 == IF item_name \in Dirs
                    THEN UploadDirectory(item_path, remote_path, st, bad)
                    ELSE UploadFile(item_path, remote_path, st, bad)
       IN PerformCopy(Tail(items), target_base, all_success /\ st1.ret, st1, bad)

\* perform_copy(selected_items, source_base, target_base, is_upload=True)
\* from its first statement to its return.
perform_copy_upload ==
  /\ up.pc = "ready"
  /\ LET st == PerformCopy(up.items, up.target_base, TRUE,
                           [tree |-> up.tree, log |-> << >>, ok |-> TRUE,
                            leaf |-> up.leaf, ret |-> TRUE], up.bad) IN
     up' = [up EXCEPT !.pc = "done", !.tree = st.tree, !.leaf = st.leaf,
                      !.result = IF st.ret THEN "true" ELSE "false"]
  /\ UNCHANGED <<engine, entries, listing, remote, mk, cli, parsed, prog, probe,
                 app, walk, srch>>

\* ------------------------------------------- the application and its exit
\* app.state: "running" while the browser's event loop runs, "exited" after
\* it.  app.cancelled: the workers worker.cancel() was called on, which marks
\* the framework's worker object and is read by nothing in do_copy or in the
\* engine (is_cancelled reads progress_modal.cancelled).
NoApp == [state |-> "none", cancelled |-> {}]

\* App.pop_screen(): the modal on top of the stack is removed; with the
\* browser's own screen alone on the stack the call raises and removes
\* nothing.
pop_screen(m) ==
  IF \E w \in Workers : m[w] = "shown"
    THEN [m EXCEPT ![CHOOSE w \in Workers : m[w] = "shown"] = "popped"]
    ELSE m

\* do_copy of action_navigate after copy_callback returned, not cancelled:
\* call_from_thread(self.pop_screen), then the status line and, after a
\* success, the countdown.
do_copy_navigate_pop(w) ==
  /\ wk[w].pc = "done"
  /\ wk[w].kind = "navigate"
  /\ ~wk[w].cancelled
  /\ modal' = pop_screen(modal)
  /\ wk' = [wk EXCEPT ![w].pc = "countdown"]
  /\ UNCHANGED <<fg, client, sftp, dst, isUpload, aside, faults, calls, forced>>
  /\ rec' = NoRec

\* do_copy of action_navigate, its last statement: unless cancelled,
\* call_from_thread(self.pop_screen) once more; when that call raises, the
\* except clause makes the same call again and the exception ends the
\* thread.
do_copy_navigate_end(w) ==
  /\ wk[w].pc = "countdown"
  /\ modal' = IF wk[w].cancelled THEN modal ELSE pop_screen(modal)
  /\ wk' = [wk EXCEPT ![w] =
       [IdleWorker EXCEPT !.pc = "finished", !.cancelled = wk[w].cancelled]]
  /\ UNCHANGED <<fg, client, sftp, dst, isUpload, aside, faults, calls, forced>>
  /\ rec' = NoRec

\* for worker in self.active_workers: if not worker.is_finished:
\* worker.cancel(); then self.active_workers.clear()
cancel_workers == {w \in Workers : wk[w].pc \notin {"idle", "finished"}}

\* FileBrowser.action_cancel (Escape or the Close button of the browser,
\* live while no modal is up): cancel the workers, self.exit([]).
action_cancel ==
  /\ app.state = "running"
  /\ NoModalShown
  /\ fg.pc = "idle"
  /\ app' = [state |-> "exited", cancelled |-> cancel_workers]
  /\ UNCHANGED <<engine, entries, listing, remote, mk, cli, parsed, prog, probe,
                 up, walk, srch>>

\* FileBrowser.on_unmount: the application is shut down by something other
\* than action_cancel (the framework's quit, an error raised in a worker),
\* with or without a modal on the stack.
on_unmount ==
  /\ app.state = "running"
  /\ fg.pc = "idle"
  /\ app' = [state |-> "exited", cancelled |-> cancel_workers]
  /\ UNCHANGED <<engine, entries, listing, remote, mk, cli, parsed, prog, probe,
                 up, walk, srch>>

\* browser.run() returns to main, which goes on to its finally clause.  No
\* statement of the browser or of main waits for a copy thread.
run_returns ==
  /\ app.state = "exited"
  /\ cli.pc = "browser"
  /\ cli' = [cli EXCEPT !.pc = "finally"]
  /\ UNCHANGED <<engine, entries, listing, remote, mk, parsed, prog, probe, others>>

\* ------------------------------ upload_directory on a tree with symlinks
\* Local trees under the directory d that is uploaded: "plain" is
\* d{f, e{g}}; "sibling" adds to d a symbolic link l to e; "ancestor" is
\* d{f, l} with l a symbolic link to d itself; "nested" is d{f, e{g, l}}
\* with l a symbolic link to d.
WalkTrees == {"plain", "sibling", "ancestor", "nested"}
WalkFiles == {"f", "g"}

\* local_path.iterdir()
iterdir(t, d) ==
  IF d = "e" THEN (IF t = "nested" THEN <<"g", "l">> ELSE <<"g">>)
  ELSE IF t \in {"plain", "nested"} THEN <<"f", "e">>
  ELSE IF t = "sibling" THEN <<"f", "e", "l">>
  ELSE <<"f", "l">>

\* What the link l points to.
readlink(t) == IF t = "sibling" THEN "e" ELSE "d"

\* Symbolic links the operating system follows while it resolves one path;
\* a path with more of them is refused (ELOOP).  Linux follows 40.
SymlinkLimit == 3

\* item.is_dir(): symbolic links are followed; a path that cannot be
\* resolved is not a directory.
is_dir(item, links) ==
  IF item = "l" THEN links + 1 <= SymlinkLimit ELSE item \notin WalkFiles

\* walk: the tree, one frame per active upload_directory call (the
\* directory it reads, the items left, the symbolic links in its path, its
\* all_success), how often upload_file was called for each file, and what
\* the outermost call returned.
NoWalk ==
  [pc |-> "none", tree |-> "none", stack |-> << >>,
   put |-> [f \in WalkFiles |-> 0], result |-> "none"]

\* One turn of upload_directory's loop, predicate false: a directory (or a
\* link to one) starts a nested upload_directory, anything else is handed to
\* upload_file, which may fail and does fail on a path that cannot be
\* resolved.
walk_item ==
  LET n == Len(walk.stack)
      f == walk.stack[n]
      item == Head(f.kids)
      rest == [walk.stack EXCEPT ![n].kids = Tail(f.kids)] IN
  /\ walk.pc = "walking"
  /\ f.kids # << >>
  /\ IF is_dir(item, f.links)
       THEN walk' = [walk EXCEPT !.stack =
              Append(rest, [dir |-> IF item = "l" THEN readlink(walk.tree) ELSE item,
                            kids |-> iterdir(walk.tree,
                                       IF item = "l" THEN readlink(walk.tree) ELSE item),
                            links |-> IF item = "l" THEN f.links + 1 ELSE f.links,
                            ok |-> TRUE])]
       ELSE \E result \in IF item = "l" THEN {FALSE} ELSE BOOLEAN :
              walk' = [walk EXCEPT
                         !.stack = [rest EXCEPT ![n].ok = @ /\ result],
                         !.put = IF item = "l" THEN @ ELSE [@ EXCEPT ![item] = @ + 1]]
  /\ UNCHANGED <<engine, entries, listing, remote, mk, cli, parsed, prog, probe,
                 up, app, srch>>

\* The loop of the innermost upload_directory is over: return all_success
\* to the loop that called it.
walk_return ==
  LET n == Len(walk.stack)
      f == walk.stack[n] IN
  /\ walk.pc = "walking"
  /\ f.kids = << >>
  /\ walk' = IF n = 1
               THEN [walk EXCEPT !.pc = "done", !.stack = << >>,
                                 !.result = IF f.ok THEN "true" ELSE "false"]
               ELSE [walk EXCEPT !.stack =
                       [SubSeq(walk.stack, 1, n - 1) EXCEPT ![n - 1].ok = @ /\ f.ok]]
  /\ UNCHANGED <<engine, entries, listing, remote, mk, cli, parsed, prog, probe,
                 up, app, srch>>

\* ------------------------------------------------- the browser's search
\* File names and search terms are sequences of the letters a and b (on
\* which str.lower() changes nothing).  The browser starts in the directory
\* "top", which holds the directory aa and the files ab and b; aa holds the
\* directory ba and the file a; ba holds the file bab.
SearchTerms == {<< >>, <<"a">>, <<"b">>}

\* list_files_func(self.current_path): names, directories first.
list_files(path) ==
  CASE path = "top" -> <<<<"a", "a">>, <<"a", "b">>, <<"b">>>>
    [] path = "aa" -> <<<<"b", "a">>, <<"a">>>>
    [] OTHER -> <<<<"b", "a", "b">>>>

\* The path of the item named name in the directory path: the parent for
\* "..", the directory of that name, or "none" when the item is a file.
full_path(path, name) ==
  CASE name = ".." -> (IF path = "ba" THEN "aa" ELSE "top")
    [] path = "top" /\ name = <<"a", "a">> -> "aa"
    [] path = "aa" /\ name = <<"b", "a">> -> "ba"
    [] OTHER -> "none"

\* srch: current_path, all_items (file names; ".." is the parent entry),
\* search_mode, search_matches and current_match_index as the code keeps
\* them (indices count from 0), status (the file name of the last
\* "Match i/n: name" the status line showed), and raised: a handler ended
\* in IndexError.
NoSearch ==
  [pc |-> "none", current_path |-> "none", all_items |-> << >>, search_mode |-> FALSE,
   search_matches |-> << >>, current_match_index |-> 0, status |-> << >>,
   raised |-> FALSE]

\* FileBrowser.refresh_file_list: all_items is cleared and rebuilt from the
\* parent entry and the listing (listed = FALSE: the listing raised and only
\* the parent entry is there).  The search state is not touched.
RefreshFileList(s, listed) ==
  [s EXCEPT !.all_items = <<"..">> \o (IF listed THEN list_files(s.current_path)
                                      ELSE << >>)]

\* FileBrowser.navigate_to_match: self.all_items[match_index] raises
\* IndexError when the index is past the end of the list.
NavigateToMatch(s) ==
  IF s.search_matches = << >> \/ s.current_match_index >= Len(s.search_matches) THEN s
  ELSE LET match_index == s.search_matches[s.current_match_index + 1] IN
       IF match_index >= Len(s.all_items) THEN [s EXCEPT !.raised = TRUE]
       ELSE [s EXCEPT !.status = s.all_items[match_index + 1]]

\* search_term in item.file_name.lower()
Contains(name, term) ==
  \E i \in 0..(Len(name) - Len(term)) : SubSeq(name, i + 1, i + Len(term)) = term

\* FileBrowser.perform_search(search_term)
PerformSearch(s, term) ==
  LET hits == {i \in 0..(Len(s.all_items) - 1) :
                 s.all_items[i + 1] # ".." /\ Contains(s.all_items[i + 1], term)}
      cleared == [s EXCEPT !.search_matches = << >>, !.current_match_index = 0] IN
  IF term = << >> THEN cleared
  ELSE NavigateToMatch([cleared EXCEPT !.search_matches =
         [k \in 1..Cardinality(hits) |->
            CHOOSE i \in hits : Cardinality({j \in hits : j < i}) = k - 1]])

\* A handler of the browser changes the search state only.
Handled(s) ==
  /\ srch' = s
  /\ UNCHANGED <<engine, entries, listing, remote, mk, cli, parsed, prog, probe,
                 up, app, walk>>

\* The browser takes a key while it is shown and no handler has raised.
Browsing == srch.pc = "browsing" /\ ~srch.raised

\* FileBrowser.action_start_search ("/")
action_start_search ==
  /\ Browsing
  /\ Handled([srch EXCEPT !.search_mode = TRUE, !.search_matches = << >>,
                          !.current_match_index = 0])

\* FileBrowser.on_input_changed: the search runs as the user types.
on_input_changed(term) ==
  /\ Browsing
  /\ srch.search_mode
  /\ Handled(PerformSearch(srch, term))

\* FileBrowser.on_input_submitted (Enter in the search input): the search
\* input is hidden, the matches are kept.
on_input_submitted ==
  /\ Browsing
  /\ srch.search_mode
  /\ Handled([srch EXCEPT !.search_mode = FALSE])

\* FileBrowser.on_key, Escape in search mode: the matches are cleared.
on_key_escape ==
  /\ Browsing
  /\ srch.search_mode
  /\ Handled([srch EXCEPT !.search_mode = FALSE, !.search_matches = << >>])

\* FileBrowser.action_next_match ("n", step 1) and action_prev_match ("p",
\* step -1), bound to keys that reach the browser while the search input is
\* not focused.
action_match(step) ==
  /\ Browsing
  /\ ~srch.search_mode
  /\ Handled(IF srch.search_matches = << >> THEN srch
             ELSE NavigateToMatch([srch EXCEPT !.current_match_index =
                    (@ + step) % Len(srch.search_matches)]))

\* FileBrowser.action_navigate on the item under the cursor when it is a
\* directory (for "..", as action_navigate_parent): current_path changes
\* and refresh_file_list runs.
action_navigate(index, listed) ==
  /\ Browsing
  /\ ~srch.search_mode
  /\ index < Len(srch.all_items)
  /\ full_path(srch.current_path, srch.all_items[index + 1]) # "none"
  /\ Handled(RefreshFileList(
       [srch EXCEPT !.current_path = full_path(@, srch.all_items[index + 1])], listed))

\* ------------------------------------------------------- specifications
\* The state main() reaches before any copy: connect() returned True.
Init ==
  /\ wk = [w \in Workers |-> IdleWorker]
  /\ fg = IdleFg
  /\ client = "active"
  /\ sftp = "open"
  /\ dst = [f \in Files |-> "absent"]
  /\ isUpload \in BOOLEAN
  /\ modal = [w \in Workers |-> "none"]
  /\ faults = 0
  /\ calls = 0
  /\ forced = FALSE
  /\ rec = NoRec
  /\ entries = << >>
  /\ listing = NoListing
  /\ remote = EmptyRemote
  /\ mk = NoMk
  /\ cli = NoCli
  /\ parsed = NoParsed
  /\ prog = NoProg
  /\ probe = NoProbe
  /\ up = NoUp
  /\ app = NoApp
  /\ walk = NoWalk
  /\ srch = NoSearch

\* One copy invocation: the copy callback is called once, the predicate may
\* become true and the network may drop at any moment.
first_call(its) ==
  /\ calls = 0
  /\ call_perform_copy(its)

Next ==
  \/ \E its \in ItemChoices : first_call(its)
  \/ cancel_signal
  \/ transport_drop
  \/ loop_item("w1")
  \/ directory_begin("w1")
  \/ file_begin("w1")
  \/ file_open("w1")
  \/ check_cancel_and_report("w1")
  \/ file_finish("w1")
  \/ file_except("w1")
  \/ call_return("w1")

Spec == Init /\ [][Next]_vars

\* The steps of copy worker w inside perform_copy and its callees.
WorkerStep(w) ==
  \/ loop_item(w)
  \/ directory_begin(w)
  \/ file_begin(w)
  \/ file_open(w)
  \/ check_cancel_and_report(w)
  \/ file_finish(w)
  \/ file_except(w)
  \/ call_return(w)

\* One copy invocation whose thread keeps running: the code between two
\* blocking calls always proceeds, and the transport eventually invokes the
\* callback or returns from put/get.
SpecLive == Init /\ [][Next]_vars /\ WF_vars(WorkerStep("w1"))

\* A sequential caller using one SCPClient for several calls in a row:
\* copy invocations and listings.
NextCalls ==
  \/ \E its \in ItemChoices : call_perform_copy(its)
  \/ call_list_remote_files
  \/ cancel_signal
  \/ transport_drop
  \/ loop_item("w1")
  \/ directory_begin("w1")
  \/ file_begin("w1")
  \/ file_open("w1")
  \/ check_cancel_and_report("w1")
  \/ file_finish("w1")
  \/ file_except("w1")
  \/ call_return("w1")
  \/ ensure_connection
  \/ listdir_attempt
  \/ retry_reconnect
  \/ list_files_returned

SpecCalls == Init /\ [][NextCalls]_vars

\* The engine driven by the browser: a foreground thread and copy workers.
NextUI ==
  \/ \E w \in Workers, its \in BrowserChoices, kind \in {"direct", "confirm"} :
       start_copy(w, its, kind)
  \/ \E w \in Workers : on_button_pressed(w)
  \/ refresh_file_list
  \/ \E w \in Workers : do_copy_refresh(w)
  \/ \E w \in Workers : do_copy_finish(w)
  \/ transport_drop
  \/ \E w \in Workers : loop_item(w)
  \/ \E w \in Workers : file_begin(w)
  \/ \E w \in Workers : file_open(w)
  \/ \E w \in Workers : check_cancel_and_report(w)
  \/ \E w \in Workers : file_finish(w)
  \/ \E w \in Workers : file_except(w)
  \/ \E w \in Workers : call_return(w)
  \/ ensure_connection
  \/ listdir_attempt
  \/ retry_reconnect
  \/ list_files_returned

SpecUI == Init /\ [][NextUI]_vars

\* The browser with a single copy thread at a time: every invocation, its
\* modal and the Cancel button, from the first copy to the last.
NextModal ==
  \/ \E its \in BrowserChoices, kind \in {"direct", "confirm"} : start_copy("w1", its, kind)
  \/ on_button_pressed("w1")
  \/ do_copy_refresh("w1")
  \/ do_copy_finish("w1")
  \/ transport_drop
  \/ loop_item("w1")
  \/ file_begin("w1")
  \/ file_open("w1")
  \/ check_cancel_and_report("w1")
  \/ file_finish("w1")
  \/ file_except("w1")
  \/ call_return("w1")
  \/ ensure_connection
  \/ listdir_attempt
  \/ retry_reconnect
  \/ list_files_returned

SpecModal == Init /\ [][NextModal]_vars

\* One listing call on a directory of any content, by either listing.
InitList ==
  /\ wk = [w \in Workers |-> IdleWorker]
  /\ fg = IdleFg
  /\ client = "active"
  /\ sftp = "open"
  /\ dst = [f \in Files |-> "absent"]
  /\ isUpload = FALSE
  /\ modal = [w \in Workers |-> "none"]
  /\ faults = 0
  /\ calls = 0
  /\ forced = FALSE
  /\ rec = NoRec
  /\ entries \in EntryLists
  /\ listing = NoListing
  /\ remote = EmptyRemote
  /\ mk = NoMk
  /\ cli = NoCli
  /\ parsed = NoParsed
  /\ prog = NoProg
  /\ probe = NoProbe
  /\ up = NoUp
  /\ app = NoApp
  /\ walk = NoWalk
  /\ srch = NoSearch

NextList ==
  \/ list_local_files
  \/ list_remote_entries

SpecList == InitList /\ [][NextList]_vars

\* The life of one SCPClient from construction: connect and disconnect in
\* any order, the transport dropping in between.
InitSession ==
  /\ wk = [w \in Workers |-> IdleWorker]
  /\ fg = IdleFg
  /\ client = "none"
  /\ sftp = "none"
  /\ dst = [f \in Files |-> "absent"]
  /\ isUpload \in BOOLEAN
  /\ modal = [w \in Workers |-> "none"]
  /\ faults = 0
  /\ calls = 0
  /\ forced = FALSE
  /\ rec = NoRec
  /\ entries = << >>
  /\ listing = NoListing
  /\ remote = EmptyRemote
  /\ mk = NoMk
  /\ cli = NoCli
  /\ parsed = NoParsed
  /\ prog = NoProg
  /\ probe = NoProbe
  /\ up = NoUp
  /\ app = NoApp
  /\ walk = NoWalk
  /\ srch = NoSearch

NextSession ==
  \/ connect
  \/ disconnect
  \/ transport_drop

SpecSession == InitSession /\ [][NextSession]_vars

\* _create_remote_directory called on a remote tree of any shape.
NextMkdir ==
  \/ \E p \in Paths, kind \in {"dir", "file"} : remote_add(p, kind)
  \/ \E p \in Paths : create_remote_directory(p)

SpecMkdir == Init /\ [][NextMkdir]_vars

\* Everything but the session, the remote tree and the single calls, at rest.
Quiet ==
  /\ wk = [w \in Workers |-> IdleWorker]
  /\ fg = IdleFg
  /\ dst = [f \in Files |-> "absent"]
  /\ isUpload = FALSE
  /\ modal = [w \in Workers |-> "none"]
  /\ faults = 0
  /\ calls = 0
  /\ forced = FALSE
  /\ rec = NoRec
  /\ entries = << >>
  /\ listing = NoListing
  /\ mk = NoMk

\* parse_remote_path called on any string.
InitParse ==
  /\ Quiet
  /\ client = "none"
  /\ sftp = "none"
  /\ remote = EmptyRemote
  /\ cli = NoCli
  /\ parsed \in {[NoParsed EXCEPT !.arg = s] : s \in Strings}
  /\ prog = NoProg
  /\ probe = NoProbe
  /\ up = NoUp
  /\ app = NoApp
  /\ walk = NoWalk
  /\ srch = NoSearch

SpecParse == InitParse /\ [][call_parse_remote_path]_vars

\* One run of main() on any command line.
InitMain ==
  /\ Quiet
  /\ client = "none"
  /\ sftp = "none"
  /\ remote = EmptyRemote
  /\ cli \in {[NoCli EXCEPT !.pc = "start", !.source = s, !.target = t, !.port = p,
                            !.interactive_right = r] :
                s \in ArgChoices, t \in ArgChoices, p \in PortFlags, r \in BOOLEAN}
  /\ parsed = NoParsed
  /\ prog = NoProg
  /\ probe = NoProbe
  /\ up = NoUp
  /\ app = NoApp
  /\ walk = NoWalk
  /\ srch = NoSearch

NextMain ==
  \/ parse_arguments
  \/ main_connect
  \/ main_body
  \/ main_finally

SpecMain == InitMain /\ [][NextMain]_vars

\* One leaf transfer seen from its callback, with and without a sink.
InitProgress ==
  /\ Quiet
  /\ client = "active"
  /\ sftp = "open"
  /\ remote = EmptyRemote
  /\ cli = NoCli
  /\ parsed = NoParsed
  /\ prog \in {[NoProg EXCEPT !.total = tc[1], !.chunk = tc[2], !.sink = s, !.pc = "put"] :
                 tc \in Transfers, s \in BOOLEAN}
  /\ probe = NoProbe
  /\ up = NoUp
  /\ app = NoApp
  /\ walk = NoWalk
  /\ srch = NoSearch

NextProgress ==
  \/ put_callback
  \/ cancel_during_put

SpecProgress == InitProgress /\ [][NextProgress]_vars

\* One probe of the remote side, in any state of the session.
InitProbe ==
  /\ Quiet
  /\ client \in ClientStates
  /\ sftp \in SftpStates
  /\ sftp = "open" => client = "active"
  /\ client = "none" => sftp = "none"
  /\ remote = EmptyRemote
  /\ cli = NoCli
  /\ parsed = NoParsed
  /\ prog = NoProg
  /\ probe = NoProbe
  /\ up = NoUp
  /\ app = NoApp
  /\ walk = NoWalk
  /\ srch = NoSearch

NextProbe ==
  \/ \E p \in Paths, kind \in {"dir", "file"} : remote_populate(p, kind)
  \/ \E p \in Paths : remote_exists(p)
  \/ \E p \in Paths : is_remote_dir(p)

SpecProbe == InitProbe /\ [][NextProbe]_vars

\* One call of expand_remote_path, in any state of the session.
SpecExpand == InitProbe /\ [][\E p \in PathStrings : expand_remote_path(p)]_vars

\* One upload of a selection to a target base: either order of the items,
\* a base with or without a trailing slash or the root, any set of failing
\* local files, and a remote side where the base is missing, present, or
\* blocked by a file at its first component.
InitUpload ==
  /\ Quiet
  /\ client = "active"
  /\ sftp = "open"
  /\ remote = EmptyRemote
  /\ cli = NoCli
  /\ parsed = NoParsed
  /\ prog = NoProg
  /\ probe = NoProbe
  /\ app = NoApp
  /\ walk = NoWalk
  /\ srch = NoSearch
  /\ \E its \in ItemChoices, bad \in SUBSET Files,
        before \in {"empty", "base", "blocked"},
        base \in {<<"/">>, <<"/", "remote", "/", "out">>,
                  <<"/", "remote", "/", "out", "/">>} :
       up = [NoUp EXCEPT
               !.pc = "ready", !.nodes = its,
               !.items = [j \in 1..Len(its) |-> LocalBase \o <<"/", its[j]>>],
               !.target_base = base, !.bad = bad, !.before = before,
               !.tree = [p \in UpPaths |->
                           IF p = << >> THEN "dir"
                           ELSE IF before = "base" /\ p \in Prefixes(<<"remote", "out">>)
                             THEN "dir"
                           ELSE IF before = "blocked" /\ p = <<"remote">> THEN "file"
                           ELSE "absent"]]

SpecUpload == InitUpload /\ [][perform_copy_upload]_vars

\* main() with the browser running: one copy thread at a time started by
\* action_navigate on a file, action_direct_copy or confirm_selection, the
\* Cancel button, the exit of the application, main's finally clause, and
\* the copy thread going on for as long as its code does.
InitApp ==
  /\ wk = [w \in Workers |-> IdleWorker]
  /\ fg = IdleFg
  /\ client = "active"
  /\ sftp = "open"
  /\ dst = [f \in Files |-> "absent"]
  /\ isUpload \in BOOLEAN
  /\ modal = [w \in Workers |-> "none"]
  /\ faults = 0
  /\ calls = 0
  /\ forced = FALSE
  /\ rec = NoRec
  /\ entries = << >>
  /\ listing = NoListing
  /\ remote = EmptyRemote
  /\ mk = NoMk
  /\ cli = [NoCli EXCEPT !.pc = "browser", !.connected = TRUE, !.started = "browser"]
  /\ parsed = NoParsed
  /\ prog = NoProg
  /\ probe = NoProbe
  /\ up = NoUp
  /\ app = [NoApp EXCEPT !.state = "running"]
  /\ walk = NoWalk
  /\ srch = NoSearch

\* The foreground thread handles events while the application runs.
Live == app.state = "running"

NextApp ==
  \/ Live /\ \E its \in BrowserChoices, kind \in {"navigate", "direct", "confirm"} :
               start_copy("w1", its, kind)
  \/ Live /\ on_button_pressed("w1")
  \/ Live /\ do_copy_refresh("w1")
  \/ do_copy_navigate_pop("w1")
  \/ do_copy_navigate_end("w1")
  \/ do_copy_finish("w1")
  \/ action_cancel
  \/ on_unmount
  \/ run_returns
  \/ main_finally
  \/ transport_drop
  \/ loop_item("w1")
  \/ file_begin("w1")
  \/ file_open("w1")
  \/ check_cancel_and_report("w1")
  \/ file_finish("w1")
  \/ file_except("w1")
  \/ call_return("w1")
  \/ Live /\ ensure_connection
  \/ Live /\ listdir_attempt
  \/ Live /\ retry_reconnect
  \/ Live /\ list_files_returned

SpecApp == InitApp /\ [][NextApp]_vars

\* upload_directory of the directory d of any of the trees.
InitWalk ==
  /\ Quiet
  /\ client = "active"
  /\ sftp = "open"
  /\ remote = EmptyRemote
  /\ cli = NoCli
  /\ parsed = NoParsed
  /\ prog = NoProg
  /\ probe = NoProbe
  /\ up = NoUp
  /\ app = NoApp
  /\ srch = NoSearch
  /\ \E t \in WalkTrees :
       walk = [NoWalk EXCEPT !.pc = "walking", !.tree = t,
                 !.stack = <<[dir |-> "d", kids |-> iterdir(t, "d"), links |-> 0,
                              ok |-> TRUE]>>]

NextWalk ==
  \/ walk_item
  \/ walk_return

SpecWalk == InitWalk /\ [][NextWalk]_vars

\* The browser after on_mount: the file list of "top" is shown; then any
\* sequence of searches, match navigation and directory changes.
InitSearch ==
  /\ Quiet
  /\ client = "active"
  /\ sftp = "open"
  /\ remote = EmptyRemote
  /\ cli = NoCli
  /\ parsed = NoParsed
  /\ prog = NoProg
  /\ probe = NoProbe
  /\ up = NoUp
  /\ app = NoApp
  /\ walk = NoWalk
  /\ srch = RefreshFileList([NoSearch EXCEPT !.pc = "browsing", !.current_path = "top"],
                            TRUE)

NextSearch ==
  \/ action_start_search
  \/ \E term \in SearchTerms : on_input_changed(term)
  \/ on_input_submitted
  \/ on_key_escape
  \/ \E step \in {1, -1} : action_match(step)
  \/ \E index \in 0..3, listed \in BOOLEAN : action_navigate(index, listed)

SpecSearch == InitSearch /\ [][NextSearch]_vars

TypeOK ==
  /\ client \in ClientStates
  /\ sftp \in SftpStates
  /\ \A f \in Files : dst[f] \in {"absent", "partial", "complete"}
  /\ fg.pc \in {"idle", "ensure", "attempt1", "retry", "attempt2", "returned"}
  /\ \A w \in Workers :
       wk[w].pc \in {"idle", "loop", "dir_begin", "file_begin", "file_open", "xfer",
                     "finish", "except", "ret", "done", "closing", "countdown",
                     "finished"}


\* ------------------------------------------------------------- properties
RECURSIVE Under(_)
\* The item c and everything below it.
Under(c) == {c} \cup UNION {Under(Children(c)[j]) : j \in 1..Len(Children(c))}

RECURSIVE Traversal(_, _)
\* The depth-first order over kids, descending into the directories of into.
Traversal(kids, into) ==
  IF kids = << >> THEN << >>
  ELSE <<Head(kids)>>
       \o (IF Head(kids) \in into THEN Traversal(Children(Head(kids)), into) ELSE << >>)
       \o Traversal(Tail(kids), into)

\* C1: after a leaf transfer was interrupted by a forced cancellation (the
\* callback closed the sub-session, the SSH channel stayed alive) and has
\* returned, the very next call made with a false predicate, upload_file /
\* download_file past its entry checks or list_remote_files at its first
\* listing attempt, works on a usable sub-session.
C1_NextCallUsable ==
  forced =>
    /\ \A w \in Workers : (wk[w].pc = "file_open" /\ ~wk[w].cancelled) => usable(sftp)
    /\ fg.pc = "attempt1" => usable(sftp)

\* C2: once the predicate of a running invocation is true no further item
\* is started at any level, and a loop whose per-item check finds it true
\* returns False at once (to the loop below it, or as perform_copy's result).
C2_NoItemAfterCancel ==
  [][\A w \in Workers :
       LET r == wk[w] IN
       /\ (Running(r) /\ r.cancelled) => wk'[w].started = r.started
       /\ (r.pc = "loop" /\ r.cancelled /\ wk'[w] # r
             /\ TopFrame(r).i <= Len(TopFrame(r).kids))
          => /\ Len(wk'[w].stack) < Len(r.stack)
             /\ IF TopFrame(r).node = Top
                  THEN wk'[w].pc = "done" /\ wk'[w].result = "false"
                  ELSE wk'[w].pc = "ret" /\ wk'[w].ret = "false"]_vars

\* Witness of C2: cancellation was seen by the loop of dir1 before its
\* second child and then by perform_copy's loop before its second item,
\* which was never started.
C2_Witness ==
  /\ wk["w1"].pc = "done"
  /\ <<"dir1", 2>> \in wk["w1"].obs
  /\ <<Top, 2>> \in wk["w1"].obs
  /\ wk["w1"].started = <<"dir1", "x.txt">>

\* C3 as stated: when a directory's loop sees the cancellation before child
\* k, children k..n are not attempted and children 1..k-1 are fully
\* transferred, the item in flight when cancellation was signalled excepted.
C3_Original ==
  \A w \in Workers : \A o \in wk[w].obs :
    o[1] \in Dirs =>
      /\ \A j \in o[2]..Len(Children(o[1])) :
           Children(o[1])[j] \notin Range(wk[w].started)
      /\ \A j \in 1..(o[2] - 1) :
           \/ wk[w].out[Children(o[1])[j]] = "true"
           \/ wk[w].inflight \in Under(Children(o[1])[j])

\* C3 amended: when a directory's loop sees the cancellation before child
\* k, children k..n are not attempted, and each of children 1..k-1 has been
\* attempted and has returned; those that returned success are fully
\* transferred (every file below them is complete at the destination).
C3_Amended ==
  \A w \in Workers : \A o \in wk[w].obs :
    o[1] \in Dirs =>
      /\ \A j \in o[2]..Len(Children(o[1])) :
           Children(o[1])[j] \notin Range(wk[w].started)
      /\ \A j \in 1..(o[2] - 1) :
           /\ Children(o[1])[j] \in Range(wk[w].started)
           /\ wk[w].out[Children(o[1])[j]] \in {"true", "false"}
           /\ wk[w].out[Children(o[1])[j]] = "true" =>
                \A f \in Under(Children(o[1])[j]) \cap Files : dst[f] = "complete"

\* Witness of C3: dir1's loop saw the cancellation before its third child,
\* after x.txt had failed and sub had been transferred.
C3_Witness ==
  /\ <<"dir1", 3>> \in wk["w1"].obs
  /\ wk["w1"].out["x.txt"] = "false"
  /\ wk["w1"].out["sub"] = "true"
  /\ wk["w1"].inflight = "none"

\* C4: at most one copy invocation is executing perform_copy at any time.
C4_OneInvocation ==
  Cardinality({w \in Workers : Running(wk[w]) /\ wk[w].pc # "closing"}) <= 1

\* C5: the foreground thread is never inside list_remote_files while a copy
\* worker is inside a leaf transfer, its forced-close callback or its
\* post-cancel recovery.
C5_ExclusiveSession ==
  ~ /\ fg.pc \in {"ensure", "attempt1", "retry", "attempt2"}
    /\ \E w \in Workers : wk[w].pc \in {"file_open", "xfer", "finish", "except"}

\* C6: a byte-progress callback invoked while the predicate is true closes
\* the sub-session, emits no progress event and raises the cancellation
\* fault; the enclosing upload_file / download_file then returns False, and
\* a leaf transfer never raises to its caller.
C6_CallbackCancel ==
  /\ [][\A w \in Workers :
          LET r == wk[w] IN
          /\ (r.pc = "xfer" /\ r.cancelled /\ usable(sftp) /\ wk'[w] # r)
             => /\ sftp' = "closed"
                /\ wk'[w].events = r.events
                /\ wk'[w].pc = "except" /\ wk'[w].exc = "cancel"
          /\ (r.pc = "except" /\ r.exc = "cancel" /\ wk'[w] # r)
             => wk'[w].pc = "ret" /\ wk'[w].ret = "false"]_vars
  /\ [](\A w \in Workers :
          (wk[w].pc = "ret" /\ wk[w].cur \in Files) => wk[w].ret \in {"true", "false"})

\* Witness of C6: a leaf returned False after its callback raised the
\* cancellation fault on the second chunk, the first having been reported.
C6_Witness ==
  /\ wk["w1"].pc = "ret"
  /\ wk["w1"].exc = "cancel"
  /\ wk["w1"].ret = "false"
  /\ wk["w1"].sent = 2
  /\ Len(wk["w1"].events) = 1
  /\ sftp = "closed"

\* C7: every session recovery reconnects only when the SSH channel is dead,
\* and with the channel alive and the sub-session dead it reopens just the
\* sub-session.
C7_TwoLevelRecovery ==
  rec.place # "none" =>
    /\ rec.did = "reconnect" => ~transport_active(rec.client)
    /\ (transport_active(rec.client) /\ rec.sftp \in {"none", "closed"})
         => rec.did = "reopen"

C11_Original ==
  /\ \A w \in Workers :
       (Running(wk[w]) /\ wk[w].cancelled) ~> (wk[w].pc = "done" /\ wk[w].result = "false")
  /\ [][\A w \in Workers :
          wk[w].polled => /\ wk'[w].sent <= wk[w].sent
                          /\ \A f \in Files : dst'[f] # dst[f] => dst'[f] = "absent"]_vars

\* C11 amended: once a poll point (an entry check, a per-item check or a
\* byte-progress callback) has seen the predicate true, the invocation
\* eventually returns False and transfers no further bytes of any file; a
\* predicate that becomes true after the last poll point has no effect.
C11_Amended ==
  /\ \A w \in Workers :
       wk[w].polled ~> (wk[w].pc = "done" /\ wk[w].result = "false")
  /\ [][\A w \in Workers :
          wk[w].polled => /\ wk'[w].sent <= wk[w].sent
                          /\ \A f \in Files : dst'[f] # dst[f] => dst'[f] = "absent"]_vars

\* Witness of C11: a.txt was transferred, the cancellation was then seen
\* by a poll point inside dir1 and the invocation returned False with
\* nothing further transferred.
C11_Witness ==
  /\ wk["w1"].pc = "done"
  /\ wk["w1"].polled
  /\ wk["w1"].result = "false"
  /\ wk["w1"].out["a.txt"] = "true"
  /\ wk["w1"].out["x.txt"] = "false"
  /\ \A f \in Files \ {"a.txt"} : dst[f] # "complete"


\* C12: list_remote_files never raises and makes at most two listing
\* attempts; a first attempt that fails on the transport goes through the
\* reconnect branch, which either hands a fresh session to the second
\* attempt or returns the empty list; the second attempt always returns, and
\* returns the empty list when it fails.
C12_ListRetriesOnce ==
  /\ [](fg.result \in {"none", "items", "empty"} /\ fg.attempts <= 2)
  /\ [][(fg.pc = "attempt1" /\ fg' # fg /\ sftp = "closed") => fg'.pc = "retry"]_vars
  /\ [][(fg.pc = "retry" /\ fg' # fg)
          => \/ fg'.pc = "attempt2" /\ usable(sftp') /\ transport_active(client')
             \/ fg'.pc = "returned" /\ fg'.result = "empty"]_vars
  /\ [][(fg.pc = "attempt2" /\ fg' # fg)
          => /\ fg'.pc = "returned"
             /\ ~usable(sftp) => fg'.result = "empty"]_vars

\* Witness of C12: the listing returned [] after its second attempt failed
\* on a session the retry branch had just re-established.
C12_Witness ==
  /\ fg.pc = "returned"
  /\ fg.attempts = 2
  /\ fg.result = "empty"
  /\ usable(sftp)


\* C13: a leaf transfer whose put/get raised a fault that is not a
\* cancellation does not return at once: the step that handles the fault
\* runs a session recovery (and the transfer is tried again).
C13_FaultRecovered ==
  [][\A w \in Workers :
       (wk[w].pc = "except" /\ ~is_cancelled(wk[w]) /\ wk'[w].pc # "except")
         => /\ rec'.place # "none"
            /\ wk'[w].pc # "ret"]_vars


\* C14: in the list either listing returns, every entry of the directory is
\* present, and a symlink whose target is missing or cannot be read is
\* reported as broken with is_directory false.
C14_BrokenLinkListed ==
  listing.by # "none" =>
    \A i \in 1..Len(entries) :
      \E j \in 1..Len(listing.items) :
        /\ listing.items[j].name = entries[i].name
        /\ ~stat_ok(entries[i]) =>
             /\ listing.items[j].symlink_target \in {"(broken link)", "path (broken link)"}
             /\ ~listing.items[j].is_dir

\* C15: in the list either listing returns, a symlink whose target exists
\* carries the type, size and modification time the listing reports for the
\* target itself (a directory target: is_directory and target_is_dir true,
\* size 0), not those of the link.
C15_LinkReportsTarget ==
  listing.by # "none" =>
    \A i \in 1..Len(entries) : \A j \in 1..Len(listing.items) :
      (listing.items[j].name = entries[i].name
         /\ entries[i].kind = "link" /\ entries[i].target \in {"file", "dir"})
        => /\ listing.items[j].is_dir = (entries[i].target = "dir")
           /\ listing.items[j].target_is_dir = (entries[i].target = "dir")
           /\ listing.items[j].size = (IF entries[i].target = "dir" THEN 0 ELSE 9)
           /\ listing.items[j].mtime = 2

\* Witness of C15: a returned listing that holds a link to a directory and
\* a link to a file, the latter with the size of its target.
C15_Witness ==
  /\ listing.by # "none"
  /\ \E j, k \in 1..Len(listing.items) :
       /\ listing.items[j].is_symlink /\ listing.items[j].is_dir
       /\ listing.items[k].is_symlink /\ listing.items[k].size = 9

\* C16: every returned listing has its directory entries (by resolved type)
\* before its other entries and, within each group, names in ascending
\* case-insensitive order.
C16_ListingSorted ==
  \A i, j \in 1..Len(listing.items) :
    i < j =>
      /\ listing.items[j].is_dir => listing.items[i].is_dir
      /\ listing.items[i].is_dir = listing.items[j].is_dir
           => ~StrLess(LowerName(listing.items[j].name), LowerName(listing.items[i].name))

\* Witness of C16: a listing of three entries in which a link to a
\* directory named "b" precedes the files "a" and "B", in that order.
C16_Witness ==
  /\ Len(listing.items) = 3
  /\ listing.items[1].name = <<98>> /\ listing.items[1].is_symlink
  /\ listing.items[2].name = <<97>>
  /\ listing.items[3].name = <<66>>

\* C17: every returned entry reported as a directory has size 0, and for
\* every returned symlink entry is_directory equals target_is_dir.
C17_DirSizeZero ==
  \A j \in 1..Len(listing.items) :
    /\ listing.items[j].is_dir => listing.items[j].size = 0
    /\ listing.items[j].is_symlink
         => listing.items[j].is_dir = listing.items[j].target_is_dir

\* Witness of C17: a listing holding a directory, a link to a directory and
\* a broken link.
C17_Witness ==
  \E i, j, k \in 1..Len(listing.items) :
    /\ listing.items[i].is_dir /\ ~listing.items[i].is_symlink
    /\ listing.items[j].is_dir /\ listing.items[j].is_symlink
    /\ listing.items[k].symlink_target = "(broken link)"


\* C18: connect() returns a boolean; true only with the SSH channel and the
\* sub-session both open; after false the client holds no live channel and
\* no usable sub-session.
C18_ConnectAllOrNothing ==
  rec.place = "connect" =>
    /\ rec.did \in {"true", "false"}
    /\ rec.did = "true" => transport_active(client) /\ usable(sftp)
    /\ rec.did = "false" => ~transport_active(client) /\ ~usable(sftp)

\* C19: disconnect() on a never-connected client closes nothing and changes
\* nothing; when both exist it closes the sub-session, then the channel,
\* and leaves neither live; a disconnect() that directly follows a
\* disconnect() changes nothing.
C19_DisconnectIdempotent ==
  /\ [](rec.place = "disconnect" =>
          /\ (rec.client = "none" /\ rec.sftp = "none")
               => (client = "none" /\ sftp = "none" /\ rec.did = "nothing")
          /\ (rec.client # "none" /\ rec.sftp # "none") => rec.did = "sftp_then_client"
          /\ ~transport_active(client) /\ ~usable(sftp))
  /\ [][(rec.place = "disconnect" /\ rec'.place = "disconnect")
          => (client' = client /\ sftp' = sftp)]_vars

\* Witness of C19: a second disconnect() in a row, on a session that had
\* been connected (both close() calls made again, nothing changed).
C19_Witness ==
  /\ rec.place = "disconnect"
  /\ rec.client = "unconnected" /\ rec.sftp = "closed"
  /\ client = "unconnected" /\ sftp = "closed"
  /\ rec.did = "sftp_then_client"


\* C20 as stated: a call that returns leaves the path and every ancestor
\* existing as directories; mkdir is sent only for components that did not
\* exist and whose existence was checked first, parents before children,
\* never for the root; a second call with the same path sends no mkdir.
C20_Original ==
  [][mk'.n = mk.n + 1 =>
       /\ mk'.outcome = "ok" => \A q \in Prefixes(mk'.path) : remote'[q] = "dir"
       /\ \A i \in 1..Len(mk'.log) :
            mk'.log[i].op = "mkdir" =>
              /\ remote[mk'.log[i].path] = "absent"
              /\ mk'.log[i].path # << >>
              /\ \E h \in 1..(i - 1) : mk'.log[h] = [op |-> "stat", path |-> mk'.log[i].path]
              /\ \A j \in (i + 1)..Len(mk'.log) :
                   mk'.log[j].op = "mkdir" => Len(mk'.log[i].path) < Len(mk'.log[j].path)
       /\ (mk.n > 0 /\ mk.outcome = "ok")
            => (remote' = remote /\ \A i \in 1..Len(mk'.log) : mk'.log[i].op # "mkdir")]_vars

\* C20 amended: a call that returns leaves the path and every ancestor
\* existing, the components it created being directories and a component
\* that already existed (as a directory or as a file) left as it was; the
\* rest as stated.
C20_Amended ==
  [][mk'.n = mk.n + 1 =>
       /\ mk'.outcome = "ok" =>
            \A q \in Prefixes(mk'.path) :
              remote'[q] = (IF remote[q] = "absent" THEN "dir" ELSE remote[q])
       /\ \A q \in Paths \ Prefixes(mk'.path) : remote'[q] = remote[q]
       /\ \A i \in 1..Len(mk'.log) :
            mk'.log[i].op = "mkdir" =>
              /\ remote[mk'.log[i].path] = "absent"
              /\ mk'.log[i].path # << >>
              /\ \E h \in 1..(i - 1) : mk'.log[h] = [op |-> "stat", path |-> mk'.log[i].path]
              /\ \A j \in (i + 1)..Len(mk'.log) :
                   mk'.log[j].op = "mkdir" => Len(mk'.log[i].path) < Len(mk'.log[j].path)
       /\ (mk.n > 0 /\ mk.outcome = "ok")
            => (remote' = remote /\ \A i \in 1..Len(mk'.log) : mk'.log[i].op # "mkdir")]_vars

\* Witness of C20: /a/b was created under a missing /a (stat /a/b, stat /a,
\* mkdir /a, mkdir /a/b) and the second call found it with one stat.
C20_Witness ==
  /\ mk.n = 2
  /\ mk.path = <<"a", "b">>
  /\ mk.outcome = "ok"
  /\ mk.log = <<[op |-> "stat", path |-> <<"a", "b">>]>>
  /\ remote[<<"a">>] = "dir" /\ remote[<<"a", "b">>] = "dir"
  /\ remote[<<"b">>] = "file"

\* C21: the connection port is the port written in the remote path whenever
\* one is written there (22 included), else the value of -P/--port, whose
\* default is 22.
C21_PathPortWins ==
  cli.config # NoConfig =>
    LET arg == IF cli.config.is_upload THEN cli.target ELSE cli.source
        port == groups(arg, re_match(arg)).port IN
    cli.config.remote.port = IF port # << >> THEN ToInt(port) ELSE cli.port

\* C22: parse_remote_path returns None exactly for the strings that are not
\* of the form [user@]host[:port]:path, in particular for every string
\* without ':'; what it returns spells the argument back; a digit segment
\* after the host is the port exactly when another ':' follows it, otherwise
\* the port is 22 and the segment stays in the path; without a 'user@' prefix
\* the user is None.
C22_ParseSyntax ==
  parsed.called =>
    LET s == parsed.arg
        r == parsed.result
        start == Len(r.user) + (IF r.user # << >> THEN 1 ELSE 0) + Len(r.host) + 1
        rest == SubSeq(s, start + 1, Len(s))
        ports == {k \in 1..(Len(rest) - 1) :
                    rest[k + 1] = ":" /\ \A i \in 1..k : rest[i] \in Digits} IN
    /\ (\A i \in 1..Len(s) : s[i] # ":") => r = NoRemotePath
    /\ r = NoRemotePath <=> Splits(s) = {}
    /\ r # NoRemotePath =>
         /\ r.host # << >>
         /\ \A i \in 1..Len(r.host) : r.host[i] # ":"
         /\ SubSeq(s, 1, start) =
              (IF r.user # << >> THEN r.user \o <<"@">> ELSE << >>) \o r.host \o <<":">>
         /\ \A k \in ports : r.port = ToInt(SubSeq(rest, 1, k)) /\ r.path = SubSeq(rest, k + 2, Len(rest))
         /\ ports = {} => r.port = DefaultPort /\ r.path = rest
         /\ (~\E a \in 2..Len(s) : s[a] = "@" /\ \A i \in 1..(a - 1) : s[i] # "@")
              => r.user = << >>

\* A string with user, host and port was parsed.
C22_Witness ==
  /\ parsed.called
  /\ parsed.arg = <<"u", "@", "u", ":", "2", ":">>
  /\ parsed.result.user = <<"u">>
  /\ parsed.result.port = 2
  /\ parsed.result.path = << >>

\* C23: main starts a browser, an upload or a download only on a command
\* line with exactly one remote side that names a user, and only after
\* connect() returned true; otherwise it ends before its body.
C23_NoTransferOnBadRun ==
  LET source_remote == parse_remote_path(cli.source)
      target_remote == parse_remote_path(cli.target)
      remote_side == IF is_remote(target_remote) THEN target_remote ELSE source_remote IN
  (cli.started # "none" \/ cli.pc \in {"connected", "finally"}) =>
    /\ is_remote(source_remote) # is_remote(target_remote)
    /\ remote_side.user # << >>
    /\ cli.connected

\* A run on a valid command line ended because connect() returned false.
C23_Witness ==
  /\ cli.pc = "exit"
  /\ cli.config # NoConfig
  /\ ~cli.connected
  /\ cli.started = "none"

\* C24: no two progress events of one file show the same integer percentage.
C24_OneEventPerPercent ==
  \A i, j \in 1..Len(prog.events) :
    i # j => prog.events[i].percent # prog.events[j].percent

\* C25: with a sink and the predicate false, a callback emits an event
\* exactly when transferred = total or transferred is at least 1% of total
\* past the count of the last event.
C25_EmitsOnOnePercent ==
  [][(prog.pc = "put" /\ prog.sink /\ ~prog.cancel /\ prog'.transferred # prog.transferred) =>
       (Len(prog'.events) = Len(prog.events) + 1
          <=> \/ prog'.transferred = prog.total
              \/ (prog'.transferred - prog.last_reported) * 100 >= prog.total)]_vars

\* C26: an event handed to the sink belongs to the file in flight, the item
\* dispatched last, and its byte count is not below that of any earlier
\* event of the file; items are dispatched once each, so the events of a
\* file dispatched earlier all precede those of a file dispatched later.
C26_EventsInOrder ==
  [][LET r == wk["w1"]
         q == wk'["w1"]
         e == q.events[Len(q.events)] IN
     /\ Len(q.events) > Len(r.events) =>
          /\ Len(q.events) = Len(r.events) + 1
          /\ e[1] = r.started[Len(r.started)]
          /\ q.started = r.started
          /\ \A j \in 1..Len(r.events) : r.events[j] = q.events[j] /\ r.events[j][1] = e[1]
                                          /\ r.events[j][2] <= e[2]
     /\ \A i, j \in 1..Len(q.started) : i # j => q.started[i] # q.started[j]]_vars

\* The second event of a file that is not the first one dispatched.
C26_Witness ==
  /\ Len(wk["w1"].events) = 2
  /\ Len(wk["w1"].started) >= 3

\* C27: the flag of an invocation is false when the invocation starts, is
\* only ever changed by the Cancel button's handler, which sets it, and
\* stays true until the invocation has ended.
C27_CancelledMonotonic ==
  [][\A w \in Workers :
       /\ (~Running(wk[w]) /\ Running(wk'[w])) => ~wk'[w].cancelled
       /\ (Running(wk[w]) /\ wk[w].cancelled) => wk'[w].cancelled
       /\ (Running(wk[w]) /\ wk'[w].cancelled # wk[w].cancelled) =>
            modal[w] = "shown" /\ modal'[w] = "dismissed" /\ fg.pc = "idle"]_vars

\* A cancelled invocation ran to its end with the flag still set.
C27_Witness ==
  \E w \in Workers :
    wk[w].pc = "done" /\ wk[w].cancelled /\ wk[w].out["a.txt"] = "false"

\* C28: whatever fails below it (a missing source, a refused request, a
\* dropped transport, a cancellation), every transfer call and perform_copy
\* itself end by returning True or False.
C28_NoExceptionCrosses ==
  LET r == wk["w1"] IN
  /\ r.ret \in {"none", "true", "false"}
  /\ r.result \in {"none", "true", "false"}
  /\ \A n \in Nodes : r.out[n] \in {"none", "true", "false"}

\* perform_copy returned False after a leaf failed on a dropped transport.
C28_Witness ==
  /\ wk["w1"].pc = "done"
  /\ wk["w1"].result = "false"
  /\ faults > 0
  /\ ~wk["w1"].cancelled

C30_ExpandNeverFails ==
  probe.op = "expand_remote_path" =>
    LET p == probe.path
        home == strip(probe.home.out)
        found == ~probe.home.raised /\ home # << >> IN
    /\ probe.outcome = "returned"
    /\ (p = << >> \/ p[1] # "~") => probe.value = p
    /\ client = "none" => probe.value = p
    /\ ~found => probe.value = p
    /\ (found /\ p = <<"~">>) => probe.value = home
    /\ (found /\ Len(p) >= 2 /\ p[1] = "~" /\ p[2] = "/")
         => probe.value = home \o SubSeq(p, 2, Len(p))

\* '~/x' was expanded to the home directory followed by '/x'.
C30_Witness ==
  /\ probe.op = "expand_remote_path"
  /\ probe.path = <<"~", "/", "x">>
  /\ probe.value = <<"/", "x", "/", "x">>

RECURSIVE Landing(_, _)
\* The files of item node with their paths relative to the target base:
\* pairs <<path, file>>.
Landing(prefix, node) ==
  IF node \in Files THEN {<<prefix \o <<node>>, node>>}
  ELSE UNION {Landing(prefix \o <<node>>, Children(node)[j]) :
                j \in 1..Len(Children(node))}

\* C31: an upload of an ordered list of items to a target base preserves the
\* tree: every file whose leaf transfer succeeded is a file at
\* target_base/basename(item)/relative path, every directory above it on the
\* remote side exists, and when every leaf succeeded perform_copy returns
\* true.
C31_UploadPreservesTree ==
  up.pc = "done" =>
    LET base == SelectSeq(up.target_base, LAMBDA t : t # "/")
        leaves == UNION {Landing(<< >>, up.nodes[j]) : j \in 1..Len(up.nodes)} IN
    /\ \A lf \in leaves :
         up.leaf[lf[2]] = "true" =>
           /\ up.tree[base \o lf[1]] = "file"
           /\ \A k \in 0..(Len(base \o lf[1]) - 1) :
                up.tree[SubSeq(base \o lf[1], 1, k)] = "dir"
    /\ (\A lf \in leaves : up.leaf[lf[2]] = "true") => up.result = "true"

\* C31 witness: a.txt and dir1 were uploaded to "/remote/out/", which did
\* not exist: y.txt is at /remote/out/dir1/sub/y.txt and the call returned
\* true.
C31_Witness ==
  /\ up.pc = "done"
  /\ up.nodes = <<"a.txt", "dir1">>
  /\ up.target_base = <<"/", "remote", "/", "out", "/">>
  /\ up.before = "empty"
  /\ up.result = "true"
  /\ up.tree[<<"remote", "out", "a.txt">>] = "file"
  /\ up.tree[<<"remote", "out", "dir1", "sub", "y.txt">>] = "file"
  /\ up.tree[<<"remote", "out", "dir1", "sub">>] = "dir"

\* C32: once the browser has exited (action_cancel or on_unmount), no copy
\* worker starts the put/get of another leaf or moves further bytes of the
\* one in progress.
C32_NoTransferAfterExit ==
  [][app.state = "exited" =>
       \A w \in Workers : wk'[w] # wk[w] => wk'[w].pc \notin {"xfer", "finish"}]_vars

\* C33: every pop_screen call of a copy invocation is made while that
\* invocation's progress modal is the top screen, so the modal is removed
\* exactly once, by its Cancel button or by its worker.
C33_PopOnlyOwnModal ==
  [][\A w \in Workers :
       (\/ do_copy_navigate_pop(w)
        \/ do_copy_navigate_end(w) /\ ~wk[w].cancelled
        \/ do_copy_finish(w) /\ ~wk[w].cancelled) => modal[w] = "shown"]_vars

\* C38: after main's finally clause has called disconnect(), the SSH channel
\* and the SFTP sub-session stay closed: no operation of the run opens
\* either again.
C38_ClosedAfterDisconnect ==
  (app.state = "exited" /\ cli.pc = "exit") => (client # "active" /\ sftp # "open")

\* C34: the progress messages of one file raise completed_items by at most
\* one, so the counter never exceeds the number of files transferred.
C34_CountedOncePerFile == prog.completed_items <= 1

\* C35: a leaf or directory transfer entered while the predicate is already
\* true returns false through its entry check and touches nothing: the
\* channel, the sub-session, the destination side and the remote tree are
\* as before, no recovery is run, and it enters no loop.
C35_CancelledEntryTouchesNothing ==
  [][\A w \in Workers :
       (wk[w].pc \in {"file_begin", "dir_begin"} /\ wk[w].cancelled /\ wk'[w] # wk[w]) =>
         /\ wk'[w].pc = "ret" /\ wk'[w].ret = "false"
         /\ wk'[w].how = "cancel_before_start"
         /\ wk'[w].stack = wk[w].stack
         /\ wk'[w].sent = wk[w].sent /\ wk'[w].events = wk[w].events
         /\ client' = client /\ sftp' = sftp /\ dst' = dst /\ remote' = remote
         /\ rec' = NoRec]_vars

\* C35 witness: x.txt was transferred, then upload_directory /
\* download_directory of sub was entered with the predicate true and
\* returned through its entry check.
C35_Witness ==
  /\ wk["w1"].pc = "ret"
  /\ wk["w1"].cur = "sub"
  /\ wk["w1"].how = "cancel_before_start"
  /\ wk["w1"].out["x.txt"] = "true"

\* C36: the cancel branch of download_file is taken only for a
\* cancellation: when the predicate is false and get failed with a
\* transport fault, download_file neither deletes the local destination
\* file nor runs the post-cancel recovery, and returns false through the
\* ordinary failure path.
C36_CleanupOnlyWhenCancelled ==
  [][\A w \in Workers :
       (/\ ~isUpload /\ wk[w].pc = "except" /\ wk'[w].pc # "except"
        /\ ~wk[w].cancelled /\ wk[w].exc # "cancel") =>
         /\ dst'[wk[w].cur] = dst[wk[w].cur]
         /\ wk'[w].how = "failed"
         /\ rec' = NoRec]_vars

\* C37: a directory transfer over a finite tree calls the leaf transfer at
\* most once for each source file, symbolic links to directories included.
C37_EachFileAtMostOnce == \A f \in WalkFiles : walk.put[f] <= 1

\* C39: every index stored in search_matches is a valid index of the
\* current all_items list, and navigate_to_match never indexes out of range.
C39_MatchesIndexItems ==
  /\ ~srch.raised
  /\ \A k \in 1..Len(srch.search_matches) : srch.search_matches[k] < Len(srch.all_items)

====
